---- MODULE Spec2Model ----
(***************************************************************************)
(* Model of the Anura controller-input subsystem (src/joystick.cpp) and    *)
(* of the dialogs that drive it (src/joystick_configure_dialog.cpp,        *)
(* src/controller_select_dialog.cpp).                                      *)
(*                                                                         *)
(* The platform (SDL) is the environment: it owns the list of attached     *)
(* devices, hands out instance ids, queues attach/remove events and may    *)
(* refuse to open a device.  The program owns the tracked device list      *)
(* (joystick_manager::joysticks), the player_controller, the preferences,  *)
(* the interactive configurer and the configuration wizard.                *)
(***************************************************************************)
EXTENDS Integers, Sequences, FiniteSets, TLC

(***************************************************************************)
(* Bounds of the model.                                                    *)
(***************************************************************************)
MaxIds == 2          \* instance ids the platform hands out in one run
MaxEvents == 2       \* attach/remove events that can wait in the SDL queue
MaxRetreats == 1     \* retreat() calls explored in one configurer session
MaxSessions == 1     \* configurer sessions explored in one run
MaxApplies == 1      \* apply_configuration() calls explored in one session

(***************************************************************************)
(* Program constants.                                                      *)
(***************************************************************************)
lowest == -32768
low_sentinel == lowest - 1
zero == 0
dead_pad == 4096
dead_pad_ex == dead_pad + 1
highest == 32767
high_sentinel == highest + 1

AXIS == 0
BUTTON == 1
HAT == 2
UNION_SIGNAL == 3           \* class tag of union_signal (not a part_kind)
NULLKIND == 4        \* class tag of the NULL pointer make() returns
FATALKIND == 5       \* tag of a construction that hit ASSERT_FATAL

NUM_CONTROLS == 7
CONTROL_UP == 0
CONTROL_DOWN == 1
CONTROL_LEFT == 2
CONTROL_RIGHT == 3
CONTROL_ATTACK == 4
CONTROL_JUMP == 5
CONTROL_TONGUE == 6

no_id == -1
no_device == -2

SDL_HAT_CENTERED == 0
SDL_HAT_UP == 1
SDL_HAT_RIGHT == 2
SDL_HAT_DOWN == 4
SDL_HAT_LEFT == 8
SDL_HAT_RIGHTUP == 3
SDL_HAT_RIGHTDOWN == 6
SDL_HAT_LEFTUP == 9
SDL_HAT_LEFTDOWN == 12

SDL_CONTROLLER_AXIS_LEFTX == 0
SDL_CONTROLLER_AXIS_LEFTY == 1
SDL_CONTROLLER_AXIS_RIGHTX == 2
SDL_CONTROLLER_AXIS_RIGHTY == 3
SDL_CONTROLLER_AXIS_MAX == 6
SDL_CONTROLLER_BUTTON_A == 0
SDL_CONTROLLER_BUTTON_B == 1
SDL_CONTROLLER_BUTTON_Y == 3
SDL_CONTROLLER_BUTTON_DPAD_UP == 11
SDL_CONTROLLER_BUTTON_DPAD_DOWN == 12
SDL_CONTROLLER_BUTTON_DPAD_LEFT == 13
SDL_CONTROLLER_BUTTON_DPAD_RIGHT == 14
SDL_CONTROLLER_BUTTON_MAX == 15

CompassPositions ==
    {SDL_HAT_UP, SDL_HAT_RIGHT, SDL_HAT_DOWN, SDL_HAT_LEFT,
     SDL_HAT_RIGHTUP, SDL_HAT_RIGHTDOWN, SDL_HAT_LEFTUP, SDL_HAT_LEFTDOWN}

(***************************************************************************)
(* Generic helpers.                                                        *)
(***************************************************************************)
Range(s) == {s[i] : i \in DOMAIN s}

RemoveAt(s, p) == [i \in 1..(Len(s) - 1) |-> IF i < p THEN s[i] ELSE s[i + 1]]

Min(S) == CHOOSE m \in S : \A n \in S : m <= n

(***************************************************************************)
(* The platform's devices.  A device model fixes what SDL reports about a  *)
(* physical device; the instance id decides the model, so that every kind  *)
(* of device is attached in some run.                                      *)
(***************************************************************************)
DeviceModels ==
    << [guid |-> "guid_hat",   gc |-> FALSE, axes |-> 2, buttons |-> 3, hats |-> 1],
       [guid |-> "guid_pad",   gc |-> TRUE,  axes |-> 2, buttons |-> 3, hats |-> 0],
       [guid |-> "guid_stick", gc |-> FALSE, axes |-> 2, buttons |-> 3, hats |-> 0] >>

ModelOf(id) == DeviceModels[(id % Len(DeviceModels)) + 1]

Guids == {DeviceModels[i].guid : i \in DOMAIN DeviceModels}

(***************************************************************************)
(* sdl_controller: a handle is an object (h is its identity, as a          *)
(* shared_ptr compares) opened on the device with instance id `id'.        *)
(***************************************************************************)
NoDevice == [h |-> -1, id |-> -1]

get_guid(dev) == ModelOf(dev.id).guid

num_axes(dev) == IF ModelOf(dev.id).gc THEN SDL_CONTROLLER_AXIS_MAX ELSE ModelOf(dev.id).axes

num_buttons(dev) == IF ModelOf(dev.id).gc THEN SDL_CONTROLLER_BUTTON_MAX ELSE ModelOf(dev.id).buttons

num_hats(dev) == IF ModelOf(dev.id).gc THEN 0 ELSE ModelOf(dev.id).hats

prefer_axial_setup(dev) == IF ModelOf(dev.id).gc THEN FALSE ELSE ModelOf(dev.id).axes >= 2

prefer_hatty_setup(dev) == IF ModelOf(dev.id).gc THEN FALSE ELSE ModelOf(dev.id).hats >= 1

prefer_sdl_gc_setup(dev) == ModelOf(dev.id).gc

know_neutral_points(dev) == ModelOf(dev.id).gc

(* A reading is what the device reports in one tick:                      *)
(* ax: axis id -> value, bt: the set of pressed buttons, hat: hat id ->    *)
(* position.  Parts the reading does not mention rest (0 / centred).       *)
NoReading == [ax |-> <<>>, bt |-> {}, hat |-> <<>>]

read_axis(r, axis_id) == IF (axis_id + 1) \in DOMAIN r.ax THEN r.ax[axis_id + 1] ELSE 0

read_button(r, button_id) == button_id \in r.bt

read_hat(dev, r, hat_id) ==
    IF ModelOf(dev.id).gc THEN SDL_HAT_CENTERED
    ELSE IF (hat_id + 1) \in DOMAIN r.hat THEN r.hat[hat_id + 1] ELSE SDL_HAT_CENTERED

(***************************************************************************)
(* controller_signal and its subclasses.  A real signal keeps what         *)
(* get_kind/get_id/get_data0/get_data1 return and the device it reads.     *)
(***************************************************************************)
NullSignal == [kind |-> NULLKIND]

FatalSignal == [kind |-> FATALKIND]

middle_to_front_SkipsDiagonal(middle) ==
    CASE middle = SDL_HAT_RIGHT -> SDL_HAT_DOWN
      [] middle = SDL_HAT_RIGHTDOWN -> SDL_HAT_DOWN
      [] middle = SDL_HAT_DOWN -> SDL_HAT_LEFT
      [] middle = SDL_HAT_LEFTDOWN -> SDL_HAT_LEFT
      [] middle = SDL_HAT_LEFT -> SDL_HAT_UP
      [] middle = SDL_HAT_LEFTUP -> SDL_HAT_UP
      [] middle = SDL_HAT_UP -> SDL_HAT_RIGHT
      [] middle = SDL_HAT_RIGHTUP -> SDL_HAT_RIGHT
      [] OTHER -> -1

middle_to_front(middle) ==
    CASE middle = SDL_HAT_RIGHT -> SDL_HAT_RIGHTDOWN
      [] middle = SDL_HAT_RIGHTDOWN -> SDL_HAT_DOWN
      [] middle = SDL_HAT_DOWN -> SDL_HAT_LEFTDOWN
      [] middle = SDL_HAT_LEFTDOWN -> SDL_HAT_LEFT
      [] middle = SDL_HAT_LEFT -> SDL_HAT_LEFTUP
      [] middle = SDL_HAT_LEFTUP -> SDL_HAT_UP
      [] middle = SDL_HAT_UP -> SDL_HAT_RIGHTUP
      [] middle = SDL_HAT_RIGHTUP -> SDL_HAT_RIGHT
      [] OTHER -> -1     \* ASSERT_FATAL("Hat middle out of range.")

middle_to_back(middle) ==
    CASE middle = SDL_HAT_RIGHT -> SDL_HAT_RIGHTUP
      [] middle = SDL_HAT_RIGHTUP -> SDL_HAT_UP
      [] middle = SDL_HAT_UP -> SDL_HAT_LEFTUP
      [] middle = SDL_HAT_LEFTUP -> SDL_HAT_LEFT
      [] middle = SDL_HAT_LEFT -> SDL_HAT_LEFTDOWN
      [] middle = SDL_HAT_LEFTDOWN -> SDL_HAT_DOWN
      [] middle = SDL_HAT_DOWN -> SDL_HAT_RIGHTDOWN
      [] middle = SDL_HAT_RIGHTDOWN -> SDL_HAT_RIGHT
      [] OTHER -> -1     \* ASSERT_FATAL("Hat middle out of range.")

axis_signal(dev, id_in, low_in, high_in) ==
    [kind |-> AXIS, id |-> id_in, d0 |-> low_in, d1 |-> high_in, dev |-> dev]

button_signal(dev, id_in) ==
    [kind |-> BUTTON, id |-> id_in, d0 |-> 0, d1 |-> 0, dev |-> dev]

hat_signal(dev, id_in, middle_in) ==
    LET middle == IF middle_in = SDL_HAT_CENTERED THEN SDL_HAT_LEFT ELSE middle_in
    IN  IF middle_to_front(middle) = -1 \/ middle_to_back(middle) = -1
        THEN FatalSignal
        ELSE [kind |-> HAT, id |-> id_in, d0 |-> middle, d1 |-> 0, dev |-> dev]

make_NoHats(dev, kind, part_id, data0, data1) ==
    CASE kind = AXIS -> axis_signal(dev, part_id, data0, data1)
      [] kind = BUTTON -> button_signal(dev, part_id)
      [] OTHER -> NullSignal

make(dev, kind, part_id, data0, data1) ==
    CASE kind = AXIS -> axis_signal(dev, part_id, data0, data1)
      [] kind = BUTTON -> button_signal(dev, part_id)
      [] kind = HAT -> hat_signal(dev, part_id, data0)
      [] OTHER -> NullSignal

union_signal(primary_in, secondary_in) ==
    [kind |-> UNION_SIGNAL, primary |-> primary_in, secondary |-> secondary_in]

RECURSIVE is_firing_AxisExclusive(_, _)
is_firing_AxisExclusive(sig, r) ==
    CASE sig.kind = UNION_SIGNAL ->
            is_firing_AxisExclusive(sig.primary, r) \/ is_firing_AxisExclusive(sig.secondary, r)
      [] sig.kind = AXIS -> (sig.d0 < read_axis(r, sig.id)) /\ (read_axis(r, sig.id) < sig.d1)
      [] sig.kind = BUTTON -> read_button(r, sig.id)
      [] sig.kind = HAT ->
            LET hat_pos == read_hat(sig.dev, r, sig.id)
            IN  \/ hat_pos = middle_to_front(sig.d0)
                \/ hat_pos = sig.d0
                \/ hat_pos = middle_to_back(sig.d0)

RECURSIVE is_firing(_, _)
is_firing(sig, r) ==
    CASE sig.kind = UNION_SIGNAL -> is_firing(sig.primary, r) \/ is_firing(sig.secondary, r)
      [] sig.kind = AXIS -> (sig.d0 <= read_axis(r, sig.id)) /\ (read_axis(r, sig.id) <= sig.d1)
      [] sig.kind = BUTTON -> read_button(r, sig.id)
      [] sig.kind = HAT ->
            LET hat_pos == read_hat(sig.dev, r, sig.id)
            IN  \/ hat_pos = middle_to_front(sig.d0)
                \/ hat_pos = sig.d0
                \/ hat_pos = middle_to_back(sig.d0)

RECURSIVE realise_Secondary(_)
realise_Secondary(sig) ==
    IF sig.kind = UNION_SIGNAL THEN realise_Secondary(sig.secondary) ELSE sig

RECURSIVE realise(_)
realise(sig) == IF sig.kind = UNION_SIGNAL THEN realise(sig.primary) ELSE sig

(***************************************************************************)
(* preferences:: as this module reads and writes it.  A stored part is the *)
(* (kind, id, data0, data1) quadruplet of one control.                     *)
(***************************************************************************)
Part(k, i, a, b) == [kind |-> k, id |-> i, data0 |-> a, data1 |-> b]

default_kind(curr_control) ==
    IF curr_control \in {CONTROL_UP, CONTROL_DOWN, CONTROL_LEFT, CONTROL_RIGHT}
    THEN AXIS ELSE BUTTON

default_id(curr_control, kind) ==
    CASE kind = AXIS ->
            (CASE curr_control \in {CONTROL_UP, CONTROL_DOWN} -> 1
               [] curr_control \in {CONTROL_LEFT, CONTROL_RIGHT} -> 0
               [] curr_control = CONTROL_ATTACK -> 2
               [] curr_control = CONTROL_JUMP -> 3
               [] curr_control = CONTROL_TONGUE -> 4)
      [] kind = BUTTON ->
            (CASE curr_control = CONTROL_UP -> 3
               [] curr_control = CONTROL_DOWN -> 4
               [] curr_control = CONTROL_LEFT -> 5
               [] curr_control = CONTROL_RIGHT -> 6
               [] curr_control = CONTROL_ATTACK -> 0
               [] curr_control = CONTROL_JUMP -> 1
               [] curr_control = CONTROL_TONGUE -> 2)
      [] kind = HAT ->
            (IF curr_control \in {CONTROL_UP, CONTROL_DOWN, CONTROL_LEFT, CONTROL_RIGHT}
             THEN 0 ELSE 1)

default_data0(curr_control, kind) ==
    CASE kind = AXIS ->
            (IF curr_control \in {CONTROL_UP, CONTROL_LEFT} THEN lowest ELSE dead_pad_ex)
      [] kind = BUTTON -> 0
      [] kind = HAT ->
            (CASE curr_control = CONTROL_UP -> SDL_HAT_UP
               [] curr_control = CONTROL_DOWN -> SDL_HAT_DOWN
               [] curr_control = CONTROL_LEFT -> SDL_HAT_LEFT
               [] curr_control = CONTROL_RIGHT -> SDL_HAT_RIGHT
               [] curr_control = CONTROL_ATTACK -> SDL_HAT_DOWN
               [] curr_control = CONTROL_JUMP -> SDL_HAT_RIGHT
               [] curr_control = CONTROL_TONGUE -> SDL_HAT_UP)

default_data1(curr_control, kind) ==
    CASE kind = AXIS ->
            (IF curr_control \in {CONTROL_UP, CONTROL_LEFT} THEN -dead_pad_ex ELSE highest)
      [] kind \in {BUTTON, HAT} -> 0

DefaultPart(c) ==
    Part(default_kind(c), default_id(c, default_kind(c)),
         default_data0(c, default_kind(c)), default_data1(c, default_kind(c)))

DefaultParts == [i \in 1..NUM_CONTROLS |-> DefaultPart(i - 1)]

(* A configuration a player saved earlier: the hat for the directions and  *)
(* buttons 0..2 for the actions.                                           *)
SavedHatParts ==
    [i \in 1..NUM_CONTROLS |->
        IF i <= 4 THEN Part(HAT, 0, default_data0(i - 1, HAT), 0)
        ELSE Part(BUTTON, i - 5, 0, 0)]

(***************************************************************************)
(* player_controller, as the record pc = [device, signal_map,              *)
(* default_config].                                                        *)
(***************************************************************************)
NewPlayerController == [device |-> NoDevice, signal_map |-> <<>>, default_config |-> TRUE]

configure_from_preferences(pc, pf) ==
    IF pc.device = NoDevice THEN pc
    ELSE [pc EXCEPT
            !.signal_map = [i \in 1..NUM_CONTROLS |->
                make(pc.device, pf.parts[i].kind, pf.parts[i].id,
                     pf.parts[i].data0, pf.parts[i].data1)],
            !.default_config = FALSE]

BlindGcMap(d) ==
    << union_signal(make(d, BUTTON, SDL_CONTROLLER_BUTTON_DPAD_UP, 0, 0),
          union_signal(make(d, AXIS, SDL_CONTROLLER_AXIS_LEFTY, lowest, -dead_pad_ex),
                       make(d, AXIS, SDL_CONTROLLER_AXIS_RIGHTY, lowest, -dead_pad_ex))),
       union_signal(make(d, BUTTON, SDL_CONTROLLER_BUTTON_DPAD_DOWN, 0, 0),
          union_signal(make(d, AXIS, SDL_CONTROLLER_AXIS_LEFTY, dead_pad_ex, highest),
                       make(d, AXIS, SDL_CONTROLLER_AXIS_RIGHTY, dead_pad_ex, highest))),
       union_signal(make(d, BUTTON, SDL_CONTROLLER_BUTTON_DPAD_LEFT, 0, 0),
          union_signal(make(d, AXIS, SDL_CONTROLLER_AXIS_LEFTX, lowest, -dead_pad_ex),
                       make(d, AXIS, SDL_CONTROLLER_AXIS_RIGHTX, lowest, -dead_pad_ex))),
       union_signal(make(d, BUTTON, SDL_CONTROLLER_BUTTON_DPAD_RIGHT, 0, 0),
          union_signal(make(d, AXIS, SDL_CONTROLLER_AXIS_LEFTX, dead_pad_ex, highest),
                       make(d, AXIS, SDL_CONTROLLER_AXIS_RIGHTX, dead_pad_ex, highest))),
       make(d, BUTTON, SDL_CONTROLLER_BUTTON_A, 0, 0),
       make(d, BUTTON, SDL_CONTROLLER_BUTTON_B, 0, 0),
       make(d, BUTTON, SDL_CONTROLLER_BUTTON_Y, 0, 0) >>

BlindHattyMap(d) ==
    << make(d, HAT, 0, SDL_HAT_UP, 0), make(d, HAT, 0, SDL_HAT_DOWN, 0),
       make(d, HAT, 0, SDL_HAT_LEFT, 0), make(d, HAT, 0, SDL_HAT_RIGHT, 0),
       make(d, BUTTON, 0, 0, 0), make(d, BUTTON, 1, 0, 0), make(d, BUTTON, 2, 0, 0) >>

BlindAxialMap(d) ==
    << make(d, AXIS, 1, lowest, -dead_pad_ex), make(d, AXIS, 1, dead_pad_ex, highest),
       make(d, AXIS, 0, lowest, -dead_pad_ex), make(d, AXIS, 0, dead_pad_ex, highest),
       make(d, BUTTON, 0, 0, 0), make(d, BUTTON, 1, 0, 0), make(d, BUTTON, 2, 0, 0) >>

configure_blind_AxialFirst(pc) ==
    IF pc.device = NoDevice THEN pc
    ELSE [pc EXCEPT
            !.default_config = TRUE,
            !.signal_map =
                IF prefer_sdl_gc_setup(pc.device) THEN BlindGcMap(pc.device)
                ELSE IF prefer_axial_setup(pc.device) THEN BlindAxialMap(pc.device)
                ELSE BlindHattyMap(pc.device)]

configure_blind(pc) ==
    IF pc.device = NoDevice THEN pc
    ELSE [pc EXCEPT
            !.default_config = TRUE,
            !.signal_map =
                IF prefer_sdl_gc_setup(pc.device) THEN BlindGcMap(pc.device)
                ELSE IF prefer_hatty_setup(pc.device) THEN BlindHattyMap(pc.device)
                ELSE BlindAxialMap(pc.device)]

pc_change_device_AlwaysBlind(pc, new_device, pf) ==
    IF new_device # NoDevice THEN configure_blind([pc EXCEPT !.device = new_device])
    ELSE [pc EXCEPT !.device = new_device]

pc_change_device(pc, new_device, pf) ==
    LET pc1 == [pc EXCEPT !.device = new_device]
    IN  IF new_device # NoDevice
        THEN IF get_guid(new_device) = pf.configured_joystick_guid
             THEN configure_from_preferences(pc1, pf)
             ELSE configure_blind(pc1)
        ELSE pc1

change_mapping(pc, parts) ==
    IF pc.device = NoDevice THEN pc
    ELSE [pc EXCEPT
            !.default_config = FALSE,
            !.signal_map = [i \in 1..NUM_CONTROLS |->
                make(pc.device, parts[i].kind, parts[i].id, parts[i].data0, parts[i].data1)]]

set_preferences_from_chosen_device(pc, pf) ==
    IF pc.device = NoDevice
    THEN [pf EXCEPT !.use_joystick = FALSE]
    ELSE [pf EXCEPT !.use_joystick = TRUE,
                    !.chosen_joystick_guid = get_guid(pc.device)]

set_preferences_from_configuration(pc, pf) ==
    IF pc.device = NoDevice THEN pf
    ELSE [pf EXCEPT
            !.configured_joystick_guid = get_guid(pc.device),
            !.parts = [i \in 1..NUM_CONTROLS |->
                Part(realise(pc.signal_map[i]).kind, realise(pc.signal_map[i]).id,
                     realise(pc.signal_map[i]).d0, realise(pc.signal_map[i]).d1)]]

(* player_controller::up() ... button(n): the control's signal, read on r. *)
pc_pressed(pc, control, r) ==
    IF pc.device = NoDevice THEN FALSE ELSE is_firing(pc.signal_map[control + 1], r)

pc_button(pc, n, r) ==
    IF pc.device = NoDevice THEN FALSE
    ELSE CASE n = 0 -> is_firing(pc.signal_map[CONTROL_ATTACK + 1], r)
           [] n = 1 -> is_firing(pc.signal_map[CONTROL_JUMP + 1], r)
           [] n = 2 -> is_firing(pc.signal_map[CONTROL_TONGUE + 1], r)
           [] OTHER -> FALSE

(* joystick::up() ... button(n) of the singular interface, on pc and the   *)
(* silent flag sil.                                                        *)
up_Unmuted(pc, sil, r) == pc_pressed(pc, CONTROL_UP, r)

up(pc, sil, r) == IF sil THEN FALSE ELSE pc_pressed(pc, CONTROL_UP, r)

down(pc, sil, r) == IF sil THEN FALSE ELSE pc_pressed(pc, CONTROL_DOWN, r)

left(pc, sil, r) == IF sil THEN FALSE ELSE pc_pressed(pc, CONTROL_LEFT, r)

right(pc, sil, r) == IF sil THEN FALSE ELSE pc_pressed(pc, CONTROL_RIGHT, r)

button(pc, sil, n, r) == IF sil THEN FALSE ELSE pc_button(pc, n, r)

(***************************************************************************)
(* State.                                                                  *)
(***************************************************************************)
VARIABLES
    attached,           \* SDL's device list: device position -> instance id
    cant_open,          \* instance ids SDL currently refuses to open
    next_id,            \* the next instance id SDL hands out
    events,             \* SDL_JOYDEVICEADDED/REMOVED events not yet pumped
    joysticks,          \* joystick_manager::joysticks
    local_joystick,     \* the player_controller
    prefs,              \* preferences:: joystick settings
    silent,             \* silent mode
    local_configurer,   \* the interactive_controller_configurer (exists = non-NULL)
    wizard,             \* JoystickMonitoringLabel and its dialog
    crashed,            \* "" while running, else the ASSERT_FATAL message
    last,               \* the last operation and what it returned
    session             \* player_controller and prefs when the wizard opened

envVars == <<attached, cant_open, next_id, events>>

regVars == <<joysticks, local_joystick, prefs, silent>>

cfgVars == <<local_configurer, wizard, session>>

vars == <<attached, cant_open, next_id, events, joysticks, local_joystick, prefs,
          silent, local_configurer, wizard, crashed, last, session>>

Running == crashed = ""

(* after: for synchronise_device_list and listen_for_signal, what the same *)
(* operation returned when it was also the operation before.               *)
Did(op, r) == [op |-> op, ret |-> r, after |-> ""]

(***************************************************************************)
(* sdl_controller::open and joystick_manager.                              *)
(***************************************************************************)
LiveHandles == Range(joysticks) \cup {local_joystick.device, local_configurer.device}

(* The identity of a newly allocated sdl_controller. *)
FreshH(live) == Min((0..Cardinality(live)) \ {d.h : d \in live})

(* open(device_position): NULL (NoDevice) when SDL refuses. *)
open(att, cant, device_position, live) ==
    IF device_position < 0 \/ device_position >= Len(att) THEN NoDevice
    ELSE IF att[device_position + 1] \in cant THEN NoDevice
    ELSE [h |-> FreshH(live), id |-> att[device_position + 1]]

is_open_and_attached(dev) == dev.id \in Range(attached)

joystick_ids == [i \in DOMAIN joysticks |-> joysticks[i].id]

device_id == IF local_joystick.device # NoDevice THEN local_joystick.device.id ELSE no_id

(* initial_setup: the loop that opens every joystick SDL lists. *)
RECURSIVE OpenAll(_, _, _, _)
OpenAll(att, cant, n, js) ==
    IF n = Len(att) THEN js
    ELSE LET j == open(att, cant, n, Range(js))
         IN  OpenAll(att, cant, n + 1, IF j # NoDevice THEN Append(js, j) ELSE js)

(* initial_setup: choosing the stick to use when preferences ask for one. *)
ChosenStick(js, pf) ==
    LET match == {i \in DOMAIN js : get_guid(js[i]) = pf.chosen_joystick_guid}
    IN  IF pf.chosen_joystick_guid # "" /\ match # {} THEN js[Min(match)]
        ELSE IF Len(js) > 0 THEN js[1]
        ELSE NoDevice

initial_setup_controller(js, pf) ==
    IF pf.use_joystick /\ ChosenStick(js, pf) # NoDevice
    THEN pc_change_device(NewPlayerController, ChosenStick(js, pf), pf)
    ELSE NewPlayerController

SynchKept_KeepsAll == joysticks

(* synch_devices, first loop: drop the handles that are no longer attached. *)
SynchKept == SelectSeq(joysticks, is_open_and_attached)

SynchController ==
    IF \E i \in DOMAIN joysticks :
            ~is_open_and_attached(joysticks[i]) /\ local_joystick.device = joysticks[i]
    THEN pc_change_device(local_joystick, NoDevice, prefs)
    ELSE local_joystick

(* synch_devices, second loop from position j on; acc = [js, ret, fatal]. *)
RECURSIVE SynchOpen(_, _)
SynchOpen(j, acc) ==
    IF j = Len(attached) \/ acc.fatal THEN acc
    ELSE LET candidate == open(attached, cant_open, j,
                               Range(acc.js) \cup {local_joystick.device, local_configurer.device})
             found == \E i \in DOMAIN acc.js : acc.js[i].id = candidate.id
         IN  IF candidate = NoDevice
             THEN [acc EXCEPT !.fatal = TRUE]
             ELSE SynchOpen(j + 1,
                    IF found THEN acc
                    ELSE [acc EXCEPT !.js = Append(acc.js, candidate), !.ret = TRUE])

SynchResult_AlwaysTrue ==
    SynchOpen(0, [js |-> SynchKept, ret |-> TRUE, fatal |-> FALSE])

SynchResult ==
    SynchOpen(0, [js |-> SynchKept, ret |-> Len(SynchKept) # Len(joysticks), fatal |-> FALSE])

BoolStr(b) == IF b THEN "true" ELSE "false"

(***************************************************************************)
(* The platform.                                                           *)
(***************************************************************************)
AddedEvent(which) == [type |-> "SDL_JOYDEVICEADDED", which |-> which]

RemovedEvent(which) == [type |-> "SDL_JOYDEVICEREMOVED", which |-> which]

(* SDL queues the event, or the event is lost before it is pumped. *)
Queued(ev, lost) == IF lost \/ Len(events) >= MaxEvents THEN events ELSE Append(events, ev)

EnvAttach ==
    /\ Running
    /\ next_id < MaxIds
    /\ \E lost \in BOOLEAN :
        /\ attached' = Append(attached, next_id)
        /\ events' = Queued(AddedEvent(Len(attached)), lost)
    /\ next_id' = next_id + 1
    /\ last' = Did("env", "")
    /\ UNCHANGED <<cant_open, regVars, cfgVars, crashed>>

EnvDetach ==
    /\ Running
    /\ \E p \in DOMAIN attached, lost \in BOOLEAN :
        /\ attached' = RemoveAt(attached, p)
        /\ cant_open' = cant_open \ {attached[p]}
        /\ events' = Queued(RemovedEvent(attached[p]), lost)
    /\ last' = Did("env", "")
    /\ UNCHANGED <<next_id, regVars, cfgVars, crashed>>

EnvOpenFault ==
    /\ Running
    /\ \E id \in Range(attached) :
        cant_open' = IF id \in cant_open THEN cant_open \ {id} ELSE cant_open \cup {id}
    /\ last' = Did("env", "")
    /\ UNCHANGED <<attached, next_id, events, regVars, cfgVars, crashed>>

(***************************************************************************)
(* joystick::pump_events.                                                  *)
(***************************************************************************)
PumpAdded(ev) ==
    LET new_controller == open(attached, cant_open, ev.which, LiveHandles)
    IN  /\ joysticks' = IF new_controller = NoDevice THEN joysticks
                        ELSE Append(joysticks, new_controller)
        /\ UNCHANGED local_joystick

PumpRemoved_KeepsDevice(ev) ==
    LET hits == {i \in DOMAIN joysticks : joysticks[i].id = ev.which}
    IN  IF hits = {}
        THEN UNCHANGED <<joysticks, local_joystick>>
        ELSE /\ joysticks' = RemoveAt(joysticks, Min(hits))
             /\ UNCHANGED local_joystick

PumpRemoved(ev) ==
    LET hits == {i \in DOMAIN joysticks : joysticks[i].id = ev.which}
    IN  IF hits = {}
        THEN UNCHANGED <<joysticks, local_joystick>>
        ELSE /\ joysticks' = RemoveAt(joysticks, Min(hits))
             /\ local_joystick' =
                    IF local_joystick.device # NoDevice /\ local_joystick.device.id = ev.which
                    THEN pc_change_device(local_joystick, NoDevice, prefs)
                    ELSE local_joystick

PumpEvents ==
    /\ Running
    /\ events # <<>>
    /\ IF Head(events).type = "SDL_JOYDEVICEADDED"
       THEN PumpAdded(Head(events))
       ELSE PumpRemoved(Head(events))
    /\ events' = Tail(events)
    /\ last' = Did("pump_events", Head(events).type)
    /\ UNCHANGED <<attached, cant_open, next_id, prefs, silent, cfgVars, crashed>>

(***************************************************************************)
(* joystick::synchronise_device_list.                                      *)
(***************************************************************************)
SynchroniseDeviceList ==
    /\ Running
    /\ joysticks' = SynchResult.js
    /\ local_joystick' = SynchController
    /\ crashed' = IF SynchResult.fatal
                  THEN "SDL Joystick refuses to open detected stick." ELSE ""
    /\ last' = [Did("synchronise_device_list",
                     IF SynchResult.fatal THEN "" ELSE BoolStr(SynchResult.ret))
                    EXCEPT !.after = IF last.op = "synchronise_device_list"
                                     THEN last.ret ELSE ""]
    /\ UNCHANGED <<envVars, prefs, silent, cfgVars>>

(***************************************************************************)
(* interactive_controller_configurer, as the record                        *)
(* [exists, device, curr_control, parts, neutral_min, neutral_max,         *)
(* retreats].  parts[c + 1] stands for part_kinds[c], part_ids[c],         *)
(* part_data0[c], part_data1[c]; retreats counts the retreat() calls of    *)
(* the session for the bound MaxRetreats.                                  *)
(***************************************************************************)
Uninit == Part(-1, -1, -1, -1)      \* an array element never written

NoConfigurer ==
    [exists |-> FALSE, device |-> NoDevice, curr_control |-> 0, parts |-> <<>>,
     neutral_min |-> <<>>, neutral_max |-> <<>>, retreats |-> 0]

new_configurer(i_device) ==
    [exists |-> TRUE, device |-> i_device, curr_control |-> 0,
     parts |-> [i \in 1..NUM_CONTROLS |-> Uninit],
     neutral_min |-> [i \in 1..num_axes(i_device) |-> 0],
     neutral_max |-> [i \in 1..num_axes(i_device) |-> 0],
     retreats |-> 0]

inside_Strict(a, b, c) == a < b /\ b < c

inside(a, b, c) == ~(b > c \/ b < a)

clash_OneSided(parts, control_one, control_two) ==
    LET one == parts[control_one + 1]
        two == parts[control_two + 1]
    IN  /\ one.kind = two.kind
        /\ one.id = two.id
        /\ \/ one.kind = BUTTON
           \/ (one.kind = HAT /\ one.data0 = two.data0)
           \/ /\ one.kind = AXIS
              /\ \/ inside(one.data0, two.data0, one.data1)
                 \/ inside(one.data0, two.data1, one.data1)

clash(parts, control_one, control_two) ==
    LET one == parts[control_one + 1]
        two == parts[control_two + 1]
    IN  /\ one.kind = two.kind
        /\ one.id = two.id
        /\ \/ one.kind = BUTTON
           \/ (one.kind = HAT /\ one.data0 = two.data0)
           \/ /\ one.kind = AXIS
              /\ \/ inside(one.data0, two.data0, one.data1)
                 \/ inside(one.data0, two.data1, one.data1)
                 \/ inside(two.data0, one.data0, two.data1)
                 \/ inside(two.data0, one.data1, two.data1)

current_control_clashes_OnlyPrevious(cf) ==
    cf.curr_control > 0 /\ clash(cf.parts, cf.curr_control - 1, cf.curr_control)

current_control_clashes_SkipsFirst(cf) ==
    \E c \in 1..(cf.curr_control - 1) : clash(cf.parts, c, cf.curr_control)

current_control_clashes(cf) ==
    \E c \in 0..(cf.curr_control - 1) : clash(cf.parts, c, cf.curr_control)

check_signal_OffByOne(cf, got_signal) ==
    IF ~got_signal THEN [cf |-> cf, result |-> "still_listening"]
    ELSE IF current_control_clashes(cf) THEN [cf |-> cf, result |-> "duplicate"]
    ELSE IF cf.curr_control + 1 > NUM_CONTROLS
         THEN [cf |-> cf, result |-> "success_finished"]
         ELSE [cf |-> [cf EXCEPT !.curr_control = cf.curr_control + 1],
               result |-> "success_keep_going"]

(* check_signal: the configurer after the call and the listen_result. *)
check_signal(cf, got_signal) ==
    IF ~got_signal THEN [cf |-> cf, result |-> "still_listening"]
    ELSE IF current_control_clashes(cf) THEN [cf |-> cf, result |-> "duplicate"]
    ELSE IF cf.curr_control + 1 >= NUM_CONTROLS
         THEN [cf |-> cf, result |-> "success_finished"]
         ELSE [cf |-> [cf EXCEPT !.curr_control = cf.curr_control + 1],
               result |-> "success_keep_going"]

cfg_default_neutral_zones(cf) ==
    [cf EXCEPT !.neutral_min = [i \in DOMAIN cf.neutral_min |-> 0],
               !.neutral_max = [i \in DOMAIN cf.neutral_max |-> 0]]

cfg_clear_neutral_zones(cf) ==
    [cf EXCEPT !.neutral_min = [i \in DOMAIN cf.neutral_min |-> high_sentinel],
               !.neutral_max = [i \in DOMAIN cf.neutral_max |-> low_sentinel]]

cfg_neutral_zones_tick(cf, r) ==
    [cf EXCEPT
        !.neutral_min = [i \in DOMAIN cf.neutral_min |->
            IF read_axis(r, i - 1) < cf.neutral_min[i] THEN read_axis(r, i - 1)
            ELSE cf.neutral_min[i]],
        !.neutral_max = [i \in DOMAIN cf.neutral_max |->
            IF read_axis(r, i - 1) > cf.neutral_max[i] THEN read_axis(r, i - 1)
            ELSE cf.neutral_max[i]]]

cfg_neutral_zones_dangerous_Strict(cf) ==
    \E i \in DOMAIN cf.neutral_min : cf.neutral_max[i] - cf.neutral_min[i] > dead_pad

cfg_neutral_zones_dangerous(cf) ==
    \E i \in DOMAIN cf.neutral_min : cf.neutral_max[i] - cf.neutral_min[i] >= dead_pad

(* listen_for_signal: the three scans, each taking the lowest index. *)
high_active_start(cf, idx) == cf.neutral_max[idx + 1] + dead_pad_ex

low_active_start_Inclusive(cf, idx) == cf.neutral_min[idx + 1] - dead_pad

low_active_start(cf, idx) == cf.neutral_min[idx + 1] - dead_pad_ex

ActiveAxes(cf, r) ==
    {idx \in 0..(num_axes(cf.device) - 1) :
        \/ read_axis(r, idx) <= low_active_start(cf, idx)
        \/ read_axis(r, idx) >= high_active_start(cf, idx)}

ActiveButtons(cf, r) == {idx \in 0..(num_buttons(cf.device) - 1) : read_button(r, idx)}

ActiveHats(cf, r) ==
    {idx \in 0..(num_hats(cf.device) - 1) : read_hat(cf.device, r, idx) # SDL_HAT_CENTERED}

got_signal(cf, r) == ActiveAxes(cf, r) # {} \/ ActiveButtons(cf, r) # {} \/ ActiveHats(cf, r) # {}

ScannedPart_ButtonsFirst(cf, r) ==
    IF ActiveButtons(cf, r) # {}
    THEN Part(BUTTON, Min(ActiveButtons(cf, r)), 0, 0)
    ELSE IF ActiveAxes(cf, r) # {}
    THEN LET idx == Min(ActiveAxes(cf, r))
         IN  IF read_axis(r, idx) <= low_active_start(cf, idx)
             THEN Part(AXIS, idx, lowest, low_active_start(cf, idx))
             ELSE Part(AXIS, idx, high_active_start(cf, idx), highest)
    ELSE LET idx == Min(ActiveHats(cf, r))
         IN  Part(HAT, idx, read_hat(cf.device, r, idx), 0)

ScannedPart(cf, r) ==
    IF ActiveAxes(cf, r) # {}
    THEN LET idx == Min(ActiveAxes(cf, r))
         IN  IF read_axis(r, idx) <= low_active_start(cf, idx)
             THEN Part(AXIS, idx, lowest, low_active_start(cf, idx))
             ELSE Part(AXIS, idx, high_active_start(cf, idx), highest)
    ELSE IF ActiveButtons(cf, r) # {}
    THEN Part(BUTTON, Min(ActiveButtons(cf, r)), 0, 0)
    ELSE LET idx == Min(ActiveHats(cf, r))
         IN  Part(HAT, idx, read_hat(cf.device, r, idx), 0)

cfg_listen_for_signal(cf, r) ==
    IF got_signal(cf, r)
    THEN check_signal([cf EXCEPT !.parts[cf.curr_control + 1] = ScannedPart(cf, r)], TRUE)
    ELSE check_signal(cf, FALSE)

cfg_retreat_ForgetsSlot(cf) ==
    IF cf.curr_control - 1 < 0 THEN [cf |-> cf, ret |-> FALSE]
    ELSE [cf |-> [cf EXCEPT !.curr_control = cf.curr_control - 1,
                            !.retreats = cf.retreats + 1,
                            !.parts[cf.curr_control] = Uninit],
          ret |-> TRUE]

cfg_retreat_Unchecked(cf) ==
    [cf |-> [cf EXCEPT !.curr_control = cf.curr_control - 1,
                       !.retreats = cf.retreats + 1],
     ret |-> TRUE]

cfg_retreat(cf) ==
    IF cf.curr_control - 1 < 0 THEN [cf |-> cf, ret |-> FALSE]
    ELSE [cf |-> [cf EXCEPT !.curr_control = cf.curr_control - 1,
                            !.retreats = cf.retreats + 1],
          ret |-> TRUE]

(***************************************************************************)
(* The singular interface to the configurer, on a configurer record; each  *)
(* does nothing when no configurer exists.                                 *)
(***************************************************************************)
start_configurer(cf) ==
    IF local_joystick.device # NoDevice THEN new_configurer(local_joystick.device) ELSE cf

clear_neutral_zones(cf) == IF cf.exists THEN cfg_clear_neutral_zones(cf) ELSE cf

examine_neutral_zones_tick(cf, r) == IF cf.exists THEN cfg_neutral_zones_tick(cf, r) ELSE cf

neutral_zones_dangerous(cf) == IF cf.exists THEN cfg_neutral_zones_dangerous(cf) ELSE FALSE

default_neutral_zones(cf) == IF cf.exists THEN cfg_default_neutral_zones(cf) ELSE cf

listen_for_signal_Success(cf, r) ==
    IF cf.exists THEN cfg_listen_for_signal(cf, r)
    ELSE [cf |-> cf, result |-> "success_keep_going"]

listen_for_signal(cf, r) ==
    IF cf.exists THEN cfg_listen_for_signal(cf, r)
    ELSE [cf |-> cf, result |-> "still_listening"]

retreat(cf) == IF cf.exists THEN cfg_retreat(cf) ELSE [cf |-> cf, ret |-> FALSE]

(* What apply_configuration reads from the part_* arrays: an element never *)
(* written holds an arbitrary value, g.                                    *)
ReadParts(cf, g) == [i \in 1..NUM_CONTROLS |-> IF cf.parts[i] = Uninit THEN g ELSE cf.parts[i]]

ArbitraryParts == {Part(BUTTON, 0, 0, 0), Part(7, 0, 0, 0), Part(HAT, 0, 5, 0)}

apply_configuration_KeepsFlag(pc, cf, g) ==
    IF cf.exists
    THEN [change_mapping(pc, ReadParts(cf, g)) EXCEPT !.default_config = pc.default_config]
    ELSE pc

apply_configuration(pc, cf, g) ==
    IF cf.exists THEN change_mapping(pc, ReadParts(cf, g)) ELSE pc

stop_configurer(cf) == NoConfigurer

MapFatal(pc) == \E i \in DOMAIN pc.signal_map : pc.signal_map[i] = FatalSignal

(* Every slot of pc holds a signal (none is NULL, none failed to build). *)
Readable(pc) ==
    \A i \in DOMAIN pc.signal_map : pc.signal_map[i].kind \notin {NULLKIND, FATALKIND}

(***************************************************************************)
(* The controller select dialog's handlers.  The dialog is not reachable   *)
(* while the configuration wizard, a modal dialog above it, is open.       *)
(***************************************************************************)
NoPrefs ==
    [use_joystick |-> FALSE, chosen_joystick_guid |-> "", configured_joystick_guid |-> "",
     parts |-> DefaultParts]

NoSession == [active |-> FALSE, pc |-> NewPlayerController, prefs |-> NoPrefs, count |-> 0,
              applies |-> 0]

change_device(device_position) ==
    IF device_position = no_device
    THEN pc_change_device(local_joystick, NoDevice, prefs)
    ELSE pc_change_device(local_joystick, joysticks[device_position + 1], prefs)

SelectController ==
    /\ Running /\ ~wizard.open /\ ~local_configurer.exists
    /\ \E selection \in 0..Len(joysticks) :
        LET pc == change_device(IF selection = 0 THEN no_device ELSE selection - 1)
        IN  /\ local_joystick' = pc
            /\ prefs' = set_preferences_from_chosen_device(pc, prefs)
            /\ last' = Did("change_device", "")
    /\ UNCHANGED <<envVars, joysticks, silent, cfgVars, crashed>>

DefaultClicked ==
    /\ Running /\ ~wizard.open /\ ~local_configurer.exists
    /\ local_joystick' = configure_blind(local_joystick)
    /\ last' = Did("use_default_config", "")
    /\ UNCHANGED <<envVars, joysticks, prefs, silent, cfgVars, crashed>>

can_use_preferences_config ==
    IF local_joystick.device = NoDevice THEN FALSE
    ELSE prefs.configured_joystick_guid = get_guid(local_joystick.device)

SavedClicked ==
    /\ Running /\ ~wizard.open /\ ~local_configurer.exists
    /\ local_joystick' = configure_from_preferences(local_joystick, prefs)
    /\ last' = Did("use_preferences_config", "")
    /\ UNCHANGED <<envVars, joysticks, prefs, silent, cfgVars, crashed>>

(***************************************************************************)
(* The configurer's interface called directly (no wizard).                 *)
(***************************************************************************)
(* The neutral zones are established before the first control is listened  *)
(* for (joystick.hpp, "must be called in order described").                *)
NothingCaptured(cf) ==
    cf.exists => (cf.curr_control = 0 /\ cf.parts[1] = Uninit /\ session.applies = 0)

(* The caller applies the configuration once it has stopped listening. *)
StillListening == session.applies = 0

StartConfigurer ==
    /\ Running /\ ~wizard.open
    /\ session.count < MaxSessions
    /\ local_configurer' = start_configurer(local_configurer)
    /\ session' = [active |-> TRUE, pc |-> local_joystick, prefs |-> prefs,
                   count |-> session.count + 1, applies |-> 0]
    /\ last' = Did("start_configurer", "")
    /\ UNCHANGED <<envVars, regVars, wizard, crashed>>

ClearNeutralZones ==
    /\ Running /\ ~wizard.open
    /\ NothingCaptured(local_configurer)
    /\ local_configurer' = clear_neutral_zones(local_configurer)
    /\ last' = Did("clear_neutral_zones", "")
    /\ UNCHANGED <<envVars, regVars, wizard, session, crashed>>

ExamineNeutralZonesTick(r) ==
    /\ Running /\ ~wizard.open
    /\ NothingCaptured(local_configurer)
    /\ local_configurer' = examine_neutral_zones_tick(local_configurer, r)
    /\ last' = Did("examine_neutral_zones_tick", "")
    /\ UNCHANGED <<envVars, regVars, wizard, session, crashed>>

DefaultNeutralZones ==
    /\ Running /\ ~wizard.open
    /\ NothingCaptured(local_configurer)
    /\ local_configurer' = default_neutral_zones(local_configurer)
    /\ last' = Did("default_neutral_zones", "")
    /\ UNCHANGED <<envVars, regVars, wizard, session, crashed>>

ListenForSignal(r) ==
    /\ Running /\ ~wizard.open
    /\ StillListening
    /\ local_configurer' = listen_for_signal(local_configurer, r).cf
    /\ last' = [Did("listen_for_signal", listen_for_signal(local_configurer, r).result)
                    EXCEPT !.after = IF last.op = "listen_for_signal" THEN last.ret ELSE ""]
    /\ UNCHANGED <<envVars, regVars, wizard, session, crashed>>

RetreatWithin(max) ==
    /\ Running /\ ~wizard.open
    /\ StillListening
    /\ local_configurer.retreats < max
    /\ local_configurer' = retreat(local_configurer).cf
    /\ last' = Did("retreat", BoolStr(retreat(local_configurer).ret))
    /\ UNCHANGED <<envVars, regVars, wizard, session, crashed>>

Retreat == RetreatWithin(MaxRetreats)

ApplyConfiguration ==
    /\ Running /\ ~wizard.open
    /\ session.applies < MaxApplies
    /\ session' = [session EXCEPT !.applies = session.applies + 1]
    /\ \E g \in ArbitraryParts :
        /\ local_joystick' = apply_configuration(local_joystick, local_configurer, g)
        /\ crashed' = IF MapFatal(apply_configuration(local_joystick, local_configurer, g))
                      THEN "Hat middle out of range." ELSE ""
    /\ last' = Did("apply_configuration", "")
    /\ UNCHANGED <<envVars, joysticks, prefs, silent, local_configurer, wizard>>

StopConfigurer ==
    /\ Running /\ ~wizard.open
    /\ local_configurer' = stop_configurer(local_configurer)
    /\ session' = [session EXCEPT !.active = FALSE]
    /\ last' = Did("stop_configurer", "")
    /\ UNCHANGED <<envVars, regVars, wizard, crashed>>

(* joystick::neutral_zones_known() called directly.  With no device bound  *)
(* it calls know_neutral_points() through a null pointer, which is         *)
(* undefined: the call faults, or returns either value.                    *)
NullDeviceOutcomes == {"fault", "true", "false"}

NeutralZonesKnown ==
    /\ Running /\ ~wizard.open
    /\ IF local_joystick.device = NoDevice
       THEN \E outcome \in NullDeviceOutcomes :
                /\ last' = Did("neutral_zones_known", outcome)
                /\ crashed' = IF outcome = "fault"
                              THEN "neutral_zones_known: null device" ELSE ""
       ELSE /\ last' = Did("neutral_zones_known",
                         BoolStr(know_neutral_points(local_joystick.device)))
            /\ crashed' = crashed
    /\ UNCHANGED <<envVars, regVars, cfgVars>>

(* joystick::set_silent(new_val); ret records the flag it replaced. *)
SetSilent(new_val) ==
    /\ Running /\ ~wizard.open
    /\ silent' = new_val
    /\ last' = Did("set_silent", BoolStr(silent))
    /\ UNCHANGED <<envVars, joysticks, local_joystick, prefs, cfgVars, crashed>>

(***************************************************************************)
(* JoystickMonitoringLabel, the wizard, as the record                      *)
(* [open, state, tick, curr_control, do_neutral_check, okay_on, prev_on].  *)
(* okay_on/prev_on: whether the Okay/Back button takes clicks;             *)
(* w->enable(true) disables the widget w (the XXX note at line 246).       *)
(***************************************************************************)
TickWelcome == 30
TickGettingNeutralZone == 120
TickExamineBelow == 60
TickAlreadyUsed == 60
TickConfirmingGotButton == 30

ClosedWizard ==
    [open |-> FALSE, state |-> "aborted", tick |-> 0, curr_control |-> 0,
     do_neutral_check |-> FALSE, okay_on |-> FALSE, prev_on |-> FALSE]

(* neutral_zones_known(): asked of the player_controller's device. *)
neutral_zones_known == know_neutral_points(local_joystick.device)

(* start_new_state on the pair ws = [w, cf] of wizard and configurer. *)
RECURSIVE start_new_state(_, _)
start_new_state(ws, new_state) ==
    LET w == [ws.w EXCEPT !.state = new_state]
        cf == ws.cf
    IN  CASE new_state = "welcome" ->
                [w |-> [w EXCEPT !.tick = TickWelcome, !.curr_control = 0,
                                 !.do_neutral_check = ~neutral_zones_known,
                                 !.okay_on = FALSE, !.prev_on = FALSE],
                 cf |-> start_configurer(cf)]
          [] new_state = "neutral_zone_start" ->
                [w |-> [w EXCEPT !.tick = 0, !.okay_on = TRUE, !.prev_on = FALSE],
                 cf |-> clear_neutral_zones(cf)]
          [] new_state = "getting_neutral_zone" ->
                [w |-> [w EXCEPT !.tick = TickGettingNeutralZone,
                                 !.okay_on = FALSE, !.prev_on = FALSE],
                 cf |-> cf]
          [] new_state = "lively_neutral_zone" ->
                [w |-> [w EXCEPT !.tick = 0, !.okay_on = TRUE, !.prev_on = TRUE],
                 cf |-> cf]
          [] new_state = "getting_button" ->
                [w |-> [w EXCEPT !.tick = 0, !.okay_on = FALSE,
                                 !.prev_on = (w.curr_control > 0 \/ w.do_neutral_check)],
                 cf |-> cf]
          [] new_state = "already_used" ->
                [w |-> [w EXCEPT !.tick = TickAlreadyUsed], cf |-> cf]
          [] new_state = "confirming_got_button" ->
                [w |-> [w EXCEPT !.tick = TickConfirmingGotButton], cf |-> cf]
          [] new_state = "decide_finished" ->
                LET w1 == [w EXCEPT !.curr_control = w.curr_control + 1]
                IN  IF w1.curr_control = NUM_CONTROLS
                    THEN start_new_state([w |-> w1, cf |-> cf], "finished")
                    ELSE start_new_state([w |-> w1, cf |-> cf], "getting_button")
          [] new_state = "finished" ->
                [w |-> [w EXCEPT !.tick = 0, !.okay_on = TRUE], cf |-> cf]
          [] new_state = "aborted" -> [w |-> w, cf |-> cf]

next_state_AlwaysCalibrates(ws) ==
    CASE ws.w.state = "welcome" -> "neutral_zone_start"
      [] ws.w.state = "neutral_zone_start" -> "getting_neutral_zone"
      [] ws.w.state = "getting_neutral_zone" ->
            (IF neutral_zones_dangerous(ws.cf) THEN "lively_neutral_zone" ELSE "getting_button")
      [] ws.w.state = "lively_neutral_zone" -> "getting_button"
      [] ws.w.state = "getting_button" -> "confirming_got_button"
      [] ws.w.state = "already_used" -> "getting_button"
      [] ws.w.state = "confirming_got_button" -> "decide_finished"
      [] ws.w.state \in {"decide_finished", "finished"} -> "finished"
      [] ws.w.state = "aborted" -> "aborted"

next_state(ws) ==
    CASE ws.w.state = "welcome" ->
            (IF ws.w.do_neutral_check THEN "neutral_zone_start" ELSE "getting_button")
      [] ws.w.state = "neutral_zone_start" -> "getting_neutral_zone"
      [] ws.w.state = "getting_neutral_zone" ->
            (IF neutral_zones_dangerous(ws.cf) THEN "lively_neutral_zone" ELSE "getting_button")
      [] ws.w.state = "lively_neutral_zone" -> "getting_button"
      [] ws.w.state = "getting_button" -> "confirming_got_button"
      [] ws.w.state = "already_used" -> "getting_button"
      [] ws.w.state = "confirming_got_button" -> "decide_finished"
      [] ws.w.state = "decide_finished" -> "finished"
      [] ws.w.state = "finished" -> "finished"
      [] ws.w.state = "aborted" -> "aborted"

(* handle_process with tick > 0: count down, change state at zero, then    *)
(* sample the axes if (still) in getting_neutral_zone below tick 60.       *)
handle_process_counting(ws, r) ==
    LET w1 == [ws.w EXCEPT !.tick = ws.w.tick - 1]
        ws1 == IF w1.tick = 0
               THEN start_new_state([w |-> w1, cf |-> ws.cf], next_state([w |-> w1, cf |-> ws.cf]))
               ELSE [w |-> w1, cf |-> ws.cf]
    IN  IF ws1.w.state = "getting_neutral_zone" /\ ws1.w.tick < TickExamineBelow
        THEN [w |-> ws1.w, cf |-> examine_neutral_zones_tick(ws1.cf, r)]
        ELSE ws1

(* handle_process with tick = 0: listen while in getting_button. *)
handle_process_waiting(ws, r) ==
    IF ws.w.state = "getting_button"
    THEN LET res == listen_for_signal(ws.cf, r)
         IN  IF res.result = "duplicate"
             THEN start_new_state([w |-> ws.w, cf |-> res.cf], "already_used")
             ELSE IF res.result \in {"success_keep_going", "success_finished"}
             THEN start_new_state([w |-> ws.w, cf |-> res.cf], "confirming_got_button")
             ELSE [w |-> ws.w, cf |-> res.cf]
    ELSE ws

handle_process_Frozen(ws, r) == handle_process_waiting(ws, r)

handle_process(ws, r) ==
    IF ws.w.tick > 0 THEN handle_process_counting(ws, r) ELSE handle_process_waiting(ws, r)

(* What the last listen_for_signal of a handle_process returned, if any. *)
ProcessResult(ws, r) ==
    IF ws.w.tick = 0 /\ ws.w.state = "getting_button"
    THEN listen_for_signal(ws.cf, r).result ELSE ""

back_one_control(ws) ==
    IF ws.w.curr_control # 0
    THEN start_new_state([w |-> [ws.w EXCEPT !.curr_control = ws.w.curr_control - 1],
                          cf |-> retreat(ws.cf).cf], "getting_button")
    ELSE IF ws.w.do_neutral_check
    THEN start_new_state(ws, "neutral_zone_start")
    ELSE ws

WS == [w |-> wizard, cf |-> local_configurer]

(* show_configure_dialog -> show_joystick_configure_dialog: silence the    *)
(* game input, construct the label (start_new_state(welcome)).             *)
ShowConfigureDialog ==
    /\ Running /\ ~wizard.open /\ ~local_configurer.exists
    /\ session.count < MaxSessions
    /\ device_id # no_id
    /\ silent' = TRUE
    /\ LET ws == start_new_state([w |-> [ClosedWizard EXCEPT !.open = TRUE],
                                  cf |-> local_configurer], "welcome")
       IN  wizard' = ws.w /\ local_configurer' = ws.cf
    /\ session' = [active |-> TRUE, pc |-> local_joystick, prefs |-> prefs,
                   count |-> session.count + 1, applies |-> 0]
    /\ last' = Did("show_joystick_configure_dialog", "")
    /\ UNCHANGED <<envVars, joysticks, local_joystick, prefs, crashed>>

HandleProcess(r) ==
    /\ Running /\ wizard.open
    /\ \E ws \in {handle_process(WS, r)} :
        wizard' = ws.w /\ local_configurer' = ws.cf
    /\ last' = Did("handle_process", ProcessResult(WS, r))
    /\ UNCHANGED <<envVars, regVars, session, crashed>>

BackButtonClickWithin(max) ==
    /\ Running /\ wizard.open /\ wizard.prev_on
    /\ local_configurer.retreats < max
    /\ \E ws \in {back_one_control(WS)} :
        wizard' = ws.w /\ local_configurer' = ws.cf
    /\ last' = Did("back_one_control", "")
    /\ UNCHANGED <<envVars, regVars, session, crashed>>

BackButtonClick == BackButtonClickWithin(MaxRetreats)

okay_button_click_SkipsScan(ws) ==
    IF ws.w.state \in {"neutral_zone_start", "getting_neutral_zone"}
    THEN start_new_state(ws, IF ws.w.state = "neutral_zone_start"
                             THEN "getting_neutral_zone" ELSE "getting_button")
    ELSE IF ws.w.state = "lively_neutral_zone" THEN start_new_state(ws, "getting_button")
    ELSE ws

(* okay_button_click in a state other than finished. *)
okay_button_click(ws) ==
    IF ws.w.state = "neutral_zone_start" THEN start_new_state(ws, "getting_neutral_zone")
    ELSE IF ws.w.state = "lively_neutral_zone" THEN start_new_state(ws, "getting_button")
    ELSE ws

(* Okay in finished: effect_remap() (apply_configuration, stop_configurer, *)
(* set_joystick_configuration_preferences), then end_dialog -> cleanup.    *)
effect_remap_controller(pc, cf, g) == apply_configuration(pc, cf, g)

effect_remap_prefs(pc, pf) == set_preferences_from_configuration(pc, pf)

OkayButtonClick ==
    /\ Running /\ wizard.open /\ wizard.okay_on
    /\ IF wizard.state = "finished"
       THEN \E g \in ArbitraryParts :
              LET pc == effect_remap_controller(local_joystick, local_configurer, g)
              IN  /\ local_joystick' = pc
                  /\ crashed' = IF MapFatal(pc) THEN "Hat middle out of range." ELSE ""
                  /\ prefs' = IF MapFatal(pc) THEN prefs ELSE effect_remap_prefs(pc, prefs)
                  /\ local_configurer' = stop_configurer(local_configurer)
                  /\ wizard' = [wizard EXCEPT !.open = FALSE]
                  /\ silent' = FALSE
                  /\ session' = [session EXCEPT !.active = FALSE]
       ELSE /\ wizard' = okay_button_click(WS).w
            /\ local_configurer' = okay_button_click(WS).cf
            /\ UNCHANGED <<local_joystick, prefs, silent, session, crashed>>
    /\ last' = Did("okay_button_click", wizard.state)
    /\ UNCHANGED <<envVars, joysticks>>

cancel_button_click_Applies(st) ==
    [st EXCEPT !.w = [start_new_state([w |-> st.w, cf |-> st.cf], "aborted").w
                        EXCEPT !.open = FALSE],
               !.pc = apply_configuration(st.pc, st.cf, Uninit),
               !.cf = stop_configurer(stop_configurer(st.cf))]

(* cancel_button_click on st = [w, cf, pc, pf]: aborted, stop_configurer,  *)
(* end_dialog (-> cleanup: stop_configurer again).                         *)
cancel_button_click(st) ==
    [st EXCEPT !.w = [start_new_state([w |-> st.w, cf |-> st.cf], "aborted").w
                        EXCEPT !.open = FALSE],
               !.cf = stop_configurer(stop_configurer(st.cf))]

ST == [w |-> wizard, cf |-> local_configurer, pc |-> local_joystick, pf |-> prefs]

CancelButtonClick ==
    /\ Running /\ wizard.open
    /\ wizard' = cancel_button_click(ST).w
    /\ local_configurer' = cancel_button_click(ST).cf
    /\ local_joystick' = cancel_button_click(ST).pc
    /\ prefs' = cancel_button_click(ST).pf
    /\ silent' = FALSE
    /\ session' = [session EXCEPT !.active = FALSE]
    /\ last' = Did("cancel_button_click", wizard.state)
    /\ UNCHANGED <<envVars, joysticks, crashed>>

(***************************************************************************)
(* Inputs: what the device reports in a tick.                              *)
(***************************************************************************)
Rd(ax, bt, hat) == [ax |-> ax, bt |-> bt, hat |-> hat]

(* The parts a player may press, in the order a player assigns them, and   *)
(* a tick with several parts active at once.                               *)
Pool ==
    << Rd(<<lowest>>, {}, <<>>), Rd(<<highest>>, {}, <<>>),
       Rd(<<>>, {}, <<SDL_HAT_UP>>), Rd(<<>>, {}, <<SDL_HAT_LEFT>>),
       Rd(<<>>, {0}, <<>>), Rd(<<>>, {1}, <<>>), Rd(<<>>, {2}, <<>>),
       Rd(<<>>, {}, <<SDL_HAT_LEFTUP>>),
       Rd(<<zero, lowest>>, {}, <<>>), Rd(<<zero, highest>>, {}, <<>>) >>

SeveralParts == Rd(<<highest>>, {1, 2}, <<SDL_HAT_UP>>)

(* The readings of Pool that would be accepted for the current control. *)
Fresh(cf) ==
    {i \in DOMAIN Pool :
        /\ got_signal(cf, Pool[i])
        /\ ~current_control_clashes(
                [cf EXCEPT !.parts[cf.curr_control + 1] = ScannedPart(cf, Pool[i])])}

(* While control c is asked for the player presses the first part of Pool  *)
(* that is still free, presses again the first one, presses several at     *)
(* once, or nothing.                                                       *)
Offered(cf) ==
    IF ~cf.exists THEN {NoReading, Pool[1]}
    ELSE {NoReading, SeveralParts, Pool[1]}
         \cup {Pool[i] : i \in (IF Fresh(cf) = {} THEN {} ELSE {Min(Fresh(cf))})}

CfgReadings == Offered(local_configurer)

ExamineReadings == { Rd(<<0>>, {}, <<>>), Rd(<<dead_pad>>, {}, <<>>) }

(***************************************************************************)
(* Initial state: manager() has run initial_setup() on the devices that    *)
(* were attached at startup, with the preferences read from file.          *)
(***************************************************************************)
InitPlatforms == {[i \in 1..n |-> i - 1] : n \in 0..MaxIds}

PrefsInit ==
    { NoPrefs,
      [NoPrefs EXCEPT !.use_joystick = TRUE],
      [use_joystick |-> TRUE, chosen_joystick_guid |-> "guid_hat",
       configured_joystick_guid |-> "guid_hat", parts |-> SavedHatParts],
      [NoPrefs EXCEPT !.use_joystick = TRUE, !.chosen_joystick_guid = "guid_pad"] }

InitWorld(att, pf, cant) ==
    /\ attached = att
    /\ cant_open = cant
    /\ next_id = Len(att)
    /\ events = <<>>
    /\ joysticks = OpenAll(att, cant, 0, <<>>)
    /\ local_joystick = initial_setup_controller(OpenAll(att, cant, 0, <<>>), pf)
    /\ prefs = pf
    /\ silent = FALSE
    /\ wizard = ClosedWizard
    /\ crashed = ""
    /\ last = Did("initial_setup", "")
    /\ session = NoSession

Init ==
    \E att \in InitPlatforms, pf \in PrefsInit :
    \E cant \in SUBSET Range(att) :
        /\ InitWorld(att, pf, cant)
        /\ local_configurer = NoConfigurer

(***************************************************************************)
(* Specifications.                                                         *)
(*   Spec       : devices come and go; events, reconciliation, selection.  *)
(*   SpecCfg    : the configurer's interface called directly.              *)
(*   SpecWiz    : the configuration wizard.                                *)
(*   SpecDetach : the configuration wizard, with the device able to        *)
(*                detach.                                                  *)
(*   SpecPure   : clash, hat positions and unions on candidate parts.      *)
(*   SpecBind   : device selection and choice of configuration.            *)
(*   SpecLoad   : validation of stored preferences, then start-up.         *)
(*   SpecBack   : the wizard with Back pressed repeatedly.                 *)
(*   SpecScan   : the wizard with readings at the edges of the zones.      *)
(*   SpecListen : the configurer's listen_for_signal and retreat.          *)
(*   SpecTable  : the controller select dialog and the wizard it opens.    *)
(***************************************************************************)
Next ==
    \/ EnvAttach
    \/ EnvDetach
    \/ EnvOpenFault
    \/ PumpEvents
    \/ SynchroniseDeviceList
    \/ SelectController
    \/ DefaultClicked
    \/ SavedClicked

(* The registry is explored from the preferences of a first run and from   *)
(* those of a player who saved a configuration.                            *)
InitReg == Init /\ prefs.use_joystick = (prefs.configured_joystick_guid # "")

Spec == InitReg /\ [][Next]_vars

NextCfg ==
    \/ StartConfigurer
    \/ ClearNeutralZones
    \/ \E r \in ExamineReadings : ExamineNeutralZonesTick(r)
    \/ DefaultNeutralZones
    \/ \E r \in CfgReadings : ListenForSignal(r)
    \/ Retreat
    \/ ApplyConfiguration
    \/ StopConfigurer
    \/ \E new_val \in BOOLEAN : SetSilent(new_val)
    \/ NeutralZonesKnown

(* At most one device, which opened, is attached when the configurer is    *)
(* called.                                                                 *)
InitCfg == Init /\ Len(attached) <= 1 /\ cant_open = {} /\ prefs.chosen_joystick_guid # "guid_pad"

SpecCfg == InitCfg /\ [][NextCfg]_vars

(* What the device reports while the wizard runs: the player rests the     *)
(* sticks, or not quite, while the neutral zones are sampled, and presses  *)
(* parts while a control is asked for.                                     *)
WizReadings ==
    IF wizard.state = "getting_neutral_zone" THEN ExamineReadings
    ELSE IF wizard.state = "getting_button" /\ wizard.tick = 0
    THEN {r \in CfgReadings : r # SeveralParts}
    ELSE {NoReading}

NextWiz ==
    \/ ShowConfigureDialog
    \/ \E r \in WizReadings : HandleProcess(r)
    \/ BackButtonClick
    \/ OkayButtonClick
    \/ CancelButtonClick

(* Both kinds of device are attached and opened when the wizard is used. *)
InitWiz ==
    /\ Init /\ Len(attached) = 2 /\ cant_open = {}
    /\ prefs.use_joystick => prefs.chosen_joystick_guid # ""

SpecWiz == InitWiz /\ [][NextWiz]_vars

(* The controller select dialog and the wizard it opens: device changes,   *)
(* configuration switches and configuration sessions in one run.           *)
NextTable ==
    \/ SelectController
    \/ DefaultClicked
    \/ SavedClicked
    \/ ShowConfigureDialog
    \/ \E r \in WizReadings : HandleProcess(r)
    \/ BackButtonClick
    \/ OkayButtonClick
    \/ CancelButtonClick

SpecTable == InitWiz /\ [][NextTable]_vars

(* The wizard on the game controller alone, the player pressing one free   *)
(* part after the other and Back as often as a whole configuration is      *)
(* long.                                                                   *)
MaxBacks == 7

BackReadings ==
    IF wizard.state = "getting_button" /\ wizard.tick = 0
    THEN {NoReading} \cup {Pool[i] : i \in (IF Fresh(local_configurer) = {} THEN {}
                                              ELSE {Min(Fresh(local_configurer))})}
    ELSE {NoReading}

NextBack ==
    \/ ShowConfigureDialog
    \/ \E r \in BackReadings : HandleProcess(r)
    \/ BackButtonClickWithin(MaxBacks)
    \/ OkayButtonClick
    \/ CancelButtonClick

InitBack ==
    \E pf \in PrefsInit :
        /\ pf.chosen_joystick_guid = "guid_pad"
        /\ InitWorld(<<1>>, pf, {})
        /\ local_configurer = NoConfigurer

SpecBack == InitBack /\ [][NextBack]_vars

(* The wizard on the hat pad, whose first axis rests at 0, 4095 or 4096    *)
(* while the neutral zones are sampled and is then moved to either edge of *)
(* its dead zone, one step inside or outside, or the second axis is moved  *)
(* while the first is at the edge, or a button is pressed, for the first   *)
(* control.                                                                *)
RestReadings == {Rd(<<0>>, {}, <<>>), Rd(<<dead_pad - 1>>, {}, <<>>), Rd(<<dead_pad>>, {}, <<>>)}

EdgeReadings(cf) ==
    LET lo == cf.neutral_min[1]
        hi == cf.neutral_max[1]
    IN  {Rd(<<hi, 0>>, {}, <<>>),
         Rd(<<lo - dead_pad_ex>>, {}, <<>>), Rd(<<lo - dead_pad>>, {}, <<>>),
         Rd(<<hi + dead_pad>>, {}, <<>>), Rd(<<hi + dead_pad_ex>>, {}, <<>>),
         Rd(<<hi + dead_pad, cf.neutral_max[2] + dead_pad_ex>>, {}, <<>>),
         Rd(<<hi, 0>>, {0}, <<>>)}

ScanReadings ==
    IF wizard.state = "getting_neutral_zone" THEN RestReadings
    ELSE IF wizard.state = "getting_button" /\ wizard.tick = 0 /\ local_configurer.exists
    THEN IF local_configurer.curr_control = 0 THEN EdgeReadings(local_configurer)
         ELSE {Rd(<<local_configurer.neutral_max[1], 0>>, {}, <<>>)}
    ELSE {NoReading}

NextScan ==
    \/ ShowConfigureDialog
    \/ \E r \in ScanReadings : HandleProcess(r)
    \/ BackButtonClick
    \/ OkayButtonClick
    \/ CancelButtonClick

InitScan ==
    \E pf \in PrefsInit :
        /\ pf.configured_joystick_guid = "guid_hat"
        /\ InitWorld(<<0>>, pf, {})
        /\ local_configurer = NoConfigurer

SpecScan == InitScan /\ [][NextScan]_vars

(* The configurer on the hat pad, called directly: the player presses the  *)
(* next free part, the first part again, or several parts at once, and the *)
(* caller retreats up to three times; for the first control the player may *)
(* also move both axes, the second axis with a button and the hat, or two  *)
(* buttons with the hat.                                                   *)
MaxListenRetreats == 3

TieReadings ==
    {Rd(<<highest, lowest>>, {}, <<>>), Rd(<<zero, lowest>>, {2}, <<SDL_HAT_DOWN>>),
     Rd(<<>>, {1, 2}, <<SDL_HAT_RIGHT>>)}

ListenReadings ==
    Offered(local_configurer)
        \cup (IF local_configurer.exists /\ local_configurer.curr_control = 0
              THEN TieReadings ELSE {})

NextListen ==
    \/ StartConfigurer
    \/ \E r \in ListenReadings : ListenForSignal(r)
    \/ RetreatWithin(MaxListenRetreats)
    \/ StopConfigurer

InitListen ==
    \E pf \in PrefsInit :
        /\ pf.configured_joystick_guid = "guid_hat"
        /\ InitWorld(<<0>>, pf, {})
        /\ local_configurer = NoConfigurer

SpecListen == InitListen /\ [][NextListen]_vars

(* The configurer's comparisons and the signals' arithmetic, on candidate  *)
(* parts of every kind: the part_* arrays hold any values a capture, or    *)
(* memory never written, can leave in them.                                *)
CandidateData == {lowest, zero, highest}

CandidateParts ==
    {Part(AXIS, i, a, b) : i \in {0, 1}, a \in CandidateData, b \in CandidateData}
    \cup {Part(BUTTON, i, 0, 0) : i \in {0, 1}}
    \cup {Part(HAT, 0, p, 0) : p \in CompassPositions}
    \cup {Part(NUM_CONTROLS, 0, 0, 0)}

(* current_control_clashes() as listen_for_signal() calls it on the part   *)
(* just scanned.                                                           *)
CurrentControlClashes ==
    /\ Running /\ ~wizard.open /\ local_configurer.exists
    /\ last' = Did("current_control_clashes", BoolStr(current_control_clashes(local_configurer)))
    /\ UNCHANGED <<envVars, regVars, cfgVars, crashed>>

(* joystick::set_joystick_configuration_preferences().  A slot left NULL   *)
(* by make() is dereferenced, which is undefined: the call faults after    *)
(* the guid is stored, or goes on and stores indeterminate values for that *)
(* slot.                                                                   *)
NullSlotPrefs(pc, pf) ==
    [pf EXCEPT
        !.configured_joystick_guid = get_guid(pc.device),
        !.parts = [i \in 1..NUM_CONTROLS |->
            IF pc.signal_map[i].kind = NULLKIND THEN Uninit
            ELSE Part(realise(pc.signal_map[i]).kind, realise(pc.signal_map[i]).id,
                      realise(pc.signal_map[i]).d0, realise(pc.signal_map[i]).d1)]]

SetJoystickConfigurationPreferences ==
    /\ Running /\ ~wizard.open
    /\ IF Readable(local_joystick)
       THEN /\ prefs' = set_preferences_from_configuration(local_joystick, prefs)
            /\ crashed' = crashed
       ELSE \/ /\ prefs' = [prefs EXCEPT !.configured_joystick_guid =
                                             get_guid(local_joystick.device)]
               /\ crashed' = "set_preferences_from_configuration: null signal"
            \/ /\ prefs' = NullSlotPrefs(local_joystick, prefs)
               /\ crashed' = crashed
    /\ last' = Did("set_joystick_configuration_preferences", "")
    /\ UNCHANGED <<envVars, joysticks, local_joystick, silent, cfgVars>>

NextPure ==
    \/ CurrentControlClashes
    \/ ApplyConfiguration
    \/ SetJoystickConfigurationPreferences

(* A game controller, configured blind, is bound, and the configurer holds *)
(* a captured first control and a scanned second one.                      *)
InitPure ==
    \E x \in CandidateParts, y \in CandidateParts :
    \E pf \in {q \in PrefsInit : q.chosen_joystick_guid = "guid_pad"} :
        /\ InitWorld(<<0, 1>>, pf, {})
        /\ local_configurer =
              [new_configurer(local_joystick.device)
                 EXCEPT !.curr_control = 1, !.parts[1] = x, !.parts[2] = y]

SpecPure == InitPure /\ [][NextPure]_vars

(***************************************************************************)
(* validate_kind/id/data0/data1, through which the preferences loader      *)
(* passes every stored integer before this module reads it.                *)
(***************************************************************************)
validate_kind(candidate_kind) ==
    IF candidate_kind \in {AXIS, BUTTON, HAT} THEN candidate_kind ELSE BUTTON

validate_id(id) == IF id < 0 \/ id > 255 THEN 0 ELSE id

validate_data0_Unchecked(data0, kind) == data0

(* The last branch is ASSERT_FATAL("kind out of range when validating     *)
(* low"): no value is returned.                                           *)
validate_data0(data0, kind) ==
    CASE kind = AXIS -> data0
      [] kind = BUTTON -> data0
      [] kind = HAT -> (IF data0 \in CompassPositions THEN data0 ELSE SDL_HAT_RIGHT)
      [] OTHER -> -1

validate_data1(data1) == data1

ValidatedPart(raw) ==
    Part(validate_kind(raw.kind), validate_id(raw.id),
         validate_data0(raw.data0, validate_kind(raw.kind)), validate_data1(raw.data1))

(* Integers a preferences file may hold for one control. *)
StoredParts ==
    {Part(k, i, a, b) : k \in {-1, AXIS, BUTTON, HAT, UNION_SIGNAL, NUM_CONTROLS},
                        i \in {-1, 0, 1, 255, 256},
                        a \in {lowest, SDL_HAT_CENTERED, SDL_HAT_UP, SDL_HAT_RIGHTUP, 5,
                               SDL_HAT_LEFTDOWN, 16},
                        b \in {0, highest}}

(* The loader validating what it read, before the manager is constructed. *)
ValidatePreferences ==
    /\ Running /\ last.op = "read_preferences"
    /\ prefs' = [prefs EXCEPT !.parts = [i \in 1..NUM_CONTROLS |-> ValidatedPart(prefs.parts[i])]]
    /\ crashed' = IF \E i \in 1..NUM_CONTROLS :
                        validate_kind(prefs.parts[i].kind) \notin {AXIS, BUTTON, HAT}
                  THEN "kind out of range when validating low" ELSE ""
    /\ last' = Did("validate_preferences", "")
    /\ UNCHANGED <<envVars, joysticks, local_joystick, silent, cfgVars>>

(* manager::manager -> initial_setup, on the validated preferences. *)
InitialSetup ==
    /\ Running /\ last.op = "validate_preferences"
    /\ joysticks' = OpenAll(attached, cant_open, 0, <<>>)
    /\ local_joystick' = initial_setup_controller(OpenAll(attached, cant_open, 0, <<>>), prefs)
    /\ crashed' = IF MapFatal(initial_setup_controller(OpenAll(attached, cant_open, 0, <<>>), prefs))
                  THEN "Hat middle out of range." ELSE ""
    /\ last' = Did("initial_setup", "")
    /\ UNCHANGED <<envVars, prefs, silent, cfgVars>>

SetUp == last.op \notin {"read_preferences", "validate_preferences"}

NextLoad ==
    \/ ValidatePreferences
    \/ InitialSetup
    \/ SetUp /\ SelectController
    \/ SetUp /\ DefaultClicked
    \/ SetUp /\ SavedClicked

(* The preferences as read from a file that names the hat pad as the       *)
(* stick to use and as the one configured, its first control holding any   *)
(* stored integers; both devices are attached.                             *)
InitLoad ==
    \E raw \in StoredParts :
        /\ attached = <<0, 1>>
        /\ cant_open = {}
        /\ next_id = 2
        /\ events = <<>>
        /\ joysticks = <<>>
        /\ local_joystick = NewPlayerController
        /\ prefs = [use_joystick |-> TRUE, chosen_joystick_guid |-> "guid_hat",
                    configured_joystick_guid |-> "guid_hat",
                    parts |-> [SavedHatParts EXCEPT ![1] = raw]]
        /\ silent = FALSE
        /\ local_configurer = NoConfigurer
        /\ wizard = ClosedWizard
        /\ crashed = ""
        /\ last = Did("read_preferences", "")
        /\ session = NoSession

SpecLoad == InitLoad /\ [][NextLoad]_vars

(* The select dialog with a hat pad, a game controller and a plain stick   *)
(* attached, and the configurer's interface between selections.            *)
NextBind ==
    \/ SelectController
    \/ DefaultClicked
    \/ SavedClicked
    \/ StartConfigurer
    \/ ApplyConfiguration
    \/ StopConfigurer

InitBind ==
    \E pf \in PrefsInit :
        /\ InitWorld(<<0, 1, 2>>, pf, {})
        /\ local_configurer = NoConfigurer

SpecBind == InitBind /\ [][NextBind]_vars

(* The wizard with the device able to detach: SDL reports a detached       *)
(* device as resting.                                                      *)
DeviceGone ==
    local_configurer.exists /\ local_configurer.device.id \notin Range(attached)

DetachReadings == IF DeviceGone THEN {NoReading} ELSE WizReadings

NextDetach ==
    \/ ShowConfigureDialog
    \/ \E r \in DetachReadings : HandleProcess(r)
    \/ BackButtonClick
    \/ OkayButtonClick
    \/ CancelButtonClick
    \/ EnvDetach
    \/ PumpEvents

(* The player who saved a configuration for the one attached device. *)
InitDetach ==
    /\ Init /\ Len(attached) = 1 /\ cant_open = {}
    /\ prefs.configured_joystick_guid = "guid_hat"

SpecDetach == InitDetach /\ [][NextDetach]_vars

(***************************************************************************)
(* Properties of the wizard (SpecWiz) and of the configurer (SpecCfg).     *)
(***************************************************************************)
(* C1: after Cancel the binding table's seven slots and the default-config *)
(* flag are as they were when the session started, and nothing was written *)
(* to the persisted configuration.                                         *)
C1_CancelChangesNothing ==
    last.op = "cancel_button_click" =>
        /\ local_joystick.signal_map = session.pc.signal_map
        /\ local_joystick.default_config = session.pc.default_config
        /\ prefs = session.prefs
        /\ ~local_configurer.exists

(* Cancel was clicked in the finished state, all seven controls captured. *)
C1_Witness ==
    /\ last.op = "cancel_button_click" /\ last.ret = "finished"
    /\ ~wizard.open /\ wizard.curr_control = NUM_CONTROLS
    /\ Len(local_joystick.signal_map) = NUM_CONTROLS

InstalledFrom(pc, cf) ==
    \A i \in 1..NUM_CONTROLS :
        cf.parts[i] # Uninit =>
            pc.signal_map[i] = make(pc.device, cf.parts[i].kind, cf.parts[i].id,
                                    cf.parts[i].data0, cf.parts[i].data1)

(* C2: during a configuration session the binding table's slots change     *)
(* only in apply_configuration(), which replaces all seven and clears the  *)
(* default-config flag; start_configurer, the neutral-zone operations,     *)
(* listen_for_signal and retreat never change a slot.                      *)
C2_SlotsChangeOnlyInApply ==
    [][/\ last'.op \in {"start_configurer", "clear_neutral_zones",
                        "examine_neutral_zones_tick", "default_neutral_zones",
                        "listen_for_signal", "retreat", "stop_configurer"}
            => local_joystick' = local_joystick
       /\ local_joystick' # local_joystick
            => /\ last'.op = "apply_configuration" /\ local_configurer.exists
               /\ crashed' = "" =>
                    /\ Len(local_joystick'.signal_map) = NUM_CONTROLS
                    /\ InstalledFrom(local_joystick', local_configurer)
                    /\ ~local_joystick'.default_config]_vars

(* apply_configuration() replaced a default mapping in a running session. *)
C2_Witness ==
    /\ last.op = "apply_configuration" /\ local_configurer.exists
    /\ local_configurer.curr_control = 3
    /\ session.pc.default_config /\ ~local_joystick.default_config
    /\ local_joystick.signal_map # session.pc.signal_map

PairwiseDistinct(cf, n) ==
    \A a, b \in 0..(n - 1) : a # b => ~clash(cf.parts, a, b)

Accepted(c) == IF c + 1 >= NUM_CONTROLS THEN "success_finished" ELSE "success_keep_going"

ListenStep == last'.op = "listen_for_signal" /\ local_configurer.exists /\ vars' # vars

(* C3: seven pairwise non-clashing inputs in order give six                *)
(* success_keep_going and then success_finished, and apply_configuration() *)
(* then installs exactly those seven inputs.                               *)
C3_SevenInputsFinish ==
    [][/\ (ListenStep /\ last'.ret # "still_listening"
                /\ PairwiseDistinct(local_configurer', local_configurer.curr_control + 1))
            => /\ last'.ret = Accepted(local_configurer.curr_control)
               /\ local_configurer'.curr_control =
                    IF local_configurer.curr_control + 1 >= NUM_CONTROLS
                    THEN local_configurer.curr_control
                    ELSE local_configurer.curr_control + 1
       /\ (last'.op = "apply_configuration" /\ last.ret = "success_finished")
            => /\ PairwiseDistinct(local_configurer, NUM_CONTROLS)
               /\ \A i \in 1..NUM_CONTROLS : local_configurer.parts[i] # Uninit
               /\ InstalledFrom(local_joystick', local_configurer)
               /\ crashed' = ""]_vars

(* Seven inputs were taken without a retreat and applied. *)
C3_Witness ==
    /\ last.op = "apply_configuration" /\ local_configurer.exists
    /\ local_configurer.curr_control = NUM_CONTROLS - 1
    /\ local_configurer.retreats = 0
    /\ PairwiseDistinct(local_configurer, NUM_CONTROLS)
    /\ \A i \in 1..NUM_CONTROLS :
            /\ local_configurer.parts[i] # Uninit
            /\ realise(local_joystick.signal_map[i]).kind = local_configurer.parts[i].kind
            /\ realise(local_joystick.signal_map[i]).id = local_configurer.parts[i].id

(* C4: an input that clashes with an earlier control gives duplicate and   *)
(* does not advance the control index; a later input that does not clash   *)
(* is accepted and the index goes up by one.                               *)
C4_DuplicateThenAccepted ==
    [][/\ (ListenStep /\ last'.ret # "still_listening"
                /\ ~PairwiseDistinct(local_configurer', local_configurer.curr_control + 1))
            => /\ last'.ret = "duplicate"
               /\ local_configurer'.curr_control = local_configurer.curr_control
       /\ (ListenStep /\ last.ret = "duplicate" /\ last'.ret # "still_listening"
                /\ PairwiseDistinct(local_configurer', local_configurer.curr_control + 1))
            => /\ last'.ret = Accepted(local_configurer.curr_control)
               /\ local_configurer.curr_control + 1 < NUM_CONTROLS
                    => local_configurer'.curr_control = local_configurer.curr_control + 1]_vars

(* A duplicate at control 2 was followed by an accepted input. *)
C4_Witness ==
    /\ last.op = "listen_for_signal" /\ last.after = "duplicate"
    /\ last.ret = "success_keep_going"
    /\ local_configurer.curr_control = 3

(***************************************************************************)
(* Properties of the registry (Spec).                                      *)
(***************************************************************************)
Tracked(js, id) == \E i \in DOMAIN js : js[i].id = id

SynchStep == last'.op = "synchronise_device_list" /\ vars' # vars

PumpStep(type) ==
    /\ events # <<>> /\ Head(events).type = type
    /\ last'.op = "pump_events" /\ events' = Tail(events)

AllReadings == Range(Pool) \cup {NoReading, SeveralParts}

NothingPressed(pc, sil) ==
    \A r \in AllReadings :
        /\ ~up(pc, sil, r) /\ ~down(pc, sil, r) /\ ~left(pc, sil, r) /\ ~right(pc, sil, r)
        /\ \A n \in 0..2 : ~button(pc, sil, n, r)

(* C5: once the removal event for the id of the active device has been     *)
(* handled, up/down/left/right/button(0..2) are false, current_device_id() *)
(* is no_id and no tracked handle has that id.                             *)
C5_ActiveDetachHandled ==
    [][(PumpStep("SDL_JOYDEVICEREMOVED") /\ device_id # no_id
            /\ Head(events).which = device_id)
        => /\ NothingPressed(local_joystick', silent')
           /\ device_id' = no_id
           /\ ~Tracked(joysticks', Head(events).which)]_vars

(* C6: an attach event for an id that is already tracked, and a removal    *)
(* event for an id that is not tracked, each leave the tracked list, the   *)
(* active device and the binding table as they were, and abort nothing.    *)
C6_RedundantEventsIgnored ==
    [][(\/ /\ PumpStep("SDL_JOYDEVICEADDED")
           /\ Head(events).which < Len(attached)
           /\ Tracked(joysticks, attached[Head(events).which + 1])
        \/ /\ PumpStep("SDL_JOYDEVICEREMOVED")
           /\ ~Tracked(joysticks, Head(events).which))
        => /\ joysticks' = joysticks
           /\ local_joystick' = local_joystick
           /\ crashed' = ""]_vars

(* C7: no two tracked handles have the same instance id. *)
C7_UniqueTrackedIds ==
    \A i, j \in DOMAIN joysticks : i # j => joysticks[i].id # joysticks[j].id

(* C8: when synchronise_device_list() is called twice in a row and the     *)
(* platform's devices did not change in between, the second call returns   *)
(* false and leaves the tracked list as the first call left it.            *)
C8_SecondSynchIdle ==
    [][(last.op = "synchronise_device_list" /\ Running /\ SynchStep)
        => /\ last'.ret = "false"
           /\ joysticks' = joysticks
           /\ local_joystick' = local_joystick]_vars

C8_Witness ==
    /\ last.op = "synchronise_device_list" /\ last.after = "true"
    /\ last.ret = "false" /\ Len(joysticks) = 2

(* C9: when synchronise_device_list() returns, every device the platform   *)
(* lists has a tracked handle, no tracked handle (and not the active       *)
(* device) is on a detached device, and it returned true exactly when it   *)
(* added or removed a handle.  (A call that aborts returns nothing.)       *)
C9_SynchPostcondition ==
    [][(SynchStep /\ crashed' = "")
        => /\ \A id \in Range(attached') : Tracked(joysticks', id)
           /\ \A i \in DOMAIN joysticks' : joysticks'[i].id \in Range(attached')
           /\ device_id' # no_id => device_id' \in Range(attached')
           /\ (last'.ret = "true") = (joysticks' # joysticks)
           /\ last'.ret \in {"true", "false"}]_vars

(* The call removed the handle of the detached active device, added one    *)
(* for a device that was not tracked, and returned true.                   *)
C9_Witness ==
    /\ last.op = "synchronise_device_list" /\ last.ret = "true" /\ Running
    /\ Len(joysticks) = 1 /\ joysticks[1].id = 1
    /\ device_id = no_id /\ prefs.use_joystick /\ local_joystick.signal_map # <<>>

(* C10: a device that refuses to open while the devices are enumerated,    *)
(* at startup or in synchronise_device_list(), is skipped: the other       *)
(* devices are processed and nothing aborts.                               *)
C10_FailedOpenSkipped ==
    /\ last.op = "initial_setup" =>
            \A id \in Range(attached) \ cant_open : Tracked(joysticks, id)
    /\ last.op = "synchronise_device_list" =>
            /\ crashed = ""
            /\ \A id \in Range(attached) \ cant_open : Tracked(joysticks, id)

(***************************************************************************)
(* Properties of the singular interface (SpecCfg).                         *)
(***************************************************************************)
(* What the player_controller itself reports on reading r, control by      *)
(* control: <<up, down, left, right, button(0), button(1), button(2)>>.    *)
Direct(pc, r) ==
    <<pc_pressed(pc, CONTROL_UP, r), pc_pressed(pc, CONTROL_DOWN, r),
      pc_pressed(pc, CONTROL_LEFT, r), pc_pressed(pc, CONTROL_RIGHT, r),
      pc_button(pc, 0, r), pc_button(pc, 1, r), pc_button(pc, 2, r)>>

Singular(pc, sil, r) ==
    <<up(pc, sil, r), down(pc, sil, r), left(pc, sil, r), right(pc, sil, r),
      button(pc, sil, 0, r), button(pc, sil, 1, r), button(pc, sil, 2, r)>>

(* C11: while silent mode is on, up(), down(), left(), right() and         *)
(* button(n) are false on every reading; set_silent() changes only the     *)
(* flag (not the active device, the slots, the tracked list, the           *)
(* preferences or the configurer), and with the flag off the predicates    *)
(* are again what the unchanged slots report (wherever reading the slots   *)
(* is defined at all).                                                     *)
C11_SilentMutesOnly ==
    [][ /\ last'.op = "set_silent" =>
            /\ local_joystick' = local_joystick /\ joysticks' = joysticks
            /\ local_configurer' = local_configurer /\ prefs' = prefs
        /\ silent' => NothingPressed(local_joystick', silent')
        /\ (~silent' /\ Readable(local_joystick')) => \A r \in AllReadings :
               Singular(local_joystick', silent', r) = Direct(local_joystick', r) ]_vars

(* Silent mode was just turned on while the bound hat pad's up slot fires. *)
C11_Witness ==
    /\ last.op = "set_silent" /\ last.ret = "false" /\ silent
    /\ local_joystick.device # NoDevice
    /\ pc_pressed(local_joystick, CONTROL_UP, Pool[3])
    /\ ~up(local_joystick, silent, Pool[3])

(* C12: apply_configuration() on a configurer that has not captured all 7  *)
(* controls (the last control was never written, so no listen_for_signal() *)
(* has returned success_finished) ends in an error and leaves the          *)
(* player_controller's mapping as it was.                                  *)
C12_EarlyApplyRefused ==
    [][ ( /\ last'.op = "apply_configuration"
          /\ local_configurer.exists
          /\ local_configurer.parts[NUM_CONTROLS] = Uninit )
        => (crashed' # "" /\ local_joystick'.signal_map = local_joystick.signal_map) ]_vars

(* C13: retreat() at the first control returns false and leaves the        *)
(* configurer as it was; at any later control it returns true, the index   *)
(* goes down by exactly one, and no captured part and no neutral zone      *)
(* changes.                                                                *)
C13_RetreatOneStep ==
    [][ (last'.op = "retreat" /\ local_configurer.exists) =>
          /\ local_configurer'.exists
          /\ local_configurer'.parts = local_configurer.parts
          /\ local_configurer'.neutral_min = local_configurer.neutral_min
          /\ local_configurer'.neutral_max = local_configurer.neutral_max
          /\ local_configurer'.device = local_configurer.device
          /\ IF local_configurer.curr_control = 0
             THEN last'.ret = "false" /\ local_configurer'.curr_control = 0
             ELSE /\ last'.ret = "true"
                  /\ local_configurer'.curr_control = local_configurer.curr_control - 1 ]_vars

(* retreat() returned true after two controls were captured: the second    *)
(* control is current again and both captured parts are still there.       *)
C13_Witness ==
    /\ last.op = "retreat" /\ last.ret = "true"
    /\ local_configurer.exists /\ local_configurer.curr_control = 1
    /\ local_configurer.parts[1] # Uninit /\ local_configurer.parts[2] # Uninit

ConfigurerOps ==
    {"stop_configurer", "listen_for_signal", "retreat", "apply_configuration",
     "clear_neutral_zones", "examine_neutral_zones_tick", "default_neutral_zones"}

C15_NoDeviceConfigureIsNoOp ==
    [][ ( /\ local_joystick.device = NoDevice
          /\ last'.op \in {"start_configurer", "neutral_zones_known"} ) =>
          /\ ~local_configurer'.exists
          /\ crashed' = ""
          /\ last'.op = "neutral_zones_known" => last'.ret = "false" ]_vars

(***************************************************************************)
(* Properties of the wizard's Back button and of a detach while it runs.   *)
(***************************************************************************)
(* C16: a Back press while the wizard is in finished changes neither the   *)
(* wizard's state, nor the dialog's or the configurer's control index, nor *)
(* the captured parts.                                                     *)
C16_BackInFinishedIgnored ==
    [][ (wizard.state = "finished" /\ last'.op = "back_one_control") =>
          /\ wizard'.state = "finished"
          /\ wizard'.curr_control = wizard.curr_control
          /\ local_configurer'.curr_control = local_configurer.curr_control
          /\ local_configurer'.parts = local_configurer.parts ]_vars

(* A handle_process that calls listen_for_signal(), or                     *)
(* examine_neutral_zones_tick(), on the configurer's device.               *)
ReadsDevice ==
    /\ last'.op = "handle_process"
    /\ \/ wizard.state = "getting_button" /\ wizard.tick = 0
       \/ /\ wizard.tick > 0 /\ wizard'.state = "getting_neutral_zone"
          /\ wizard'.tick < TickExamineBelow

(* C17: once the device of a running session is detached and every event  *)
(* about it has been delivered, the wizard makes no further                *)
(* listen_for_signal() or neutral-zone read on it: the session is aborted  *)
(* first.                                                                  *)
C17_DetachAbortsSession ==
    [][ (wizard.open /\ DeviceGone /\ events = <<>>) => ~ReadsDevice ]_vars

(***************************************************************************)
(* Properties of clash, of the hat positions and of unions (SpecPure).     *)
(***************************************************************************)
(* C18: clash(x, y) = clash(y, x) for every two slots of the part arrays,  *)
(* whatever their kinds, ids and data (axis ranges with low > high         *)
(* included).                                                              *)
C18_ClashSymmetric ==
    local_configurer.exists =>
        \A c1 \in 0..(NUM_CONTROLS - 1), c2 \in 0..(NUM_CONTROLS - 1) :
            clash(local_configurer.parts, c1, c2) = clash(local_configurer.parts, c2, c1)

(* current_control_clashes() found a clash between an axis range and a     *)
(* reversed range (low > high) of the same axis.                           *)
C18_Witness ==
    /\ last.op = "current_control_clashes" /\ last.ret = "true"
    /\ local_configurer.parts[1].kind = AXIS
    /\ local_configurer.parts[2].kind = AXIS
    /\ local_configurer.parts[2].data0 > local_configurer.parts[2].data1

(* middle_to_front applied n times to p. *)
RECURSIVE FrontTimes(_, _)
FrontTimes(p, n) == IF n = 0 THEN p ELSE middle_to_front(FrontTimes(p, n - 1))

HatClosed(p) ==
    /\ middle_to_front(p) \in CompassPositions \ {p}
    /\ middle_to_back(p) \in CompassPositions \ {p}
    /\ middle_to_back(middle_to_front(p)) = p
    /\ {FrontTimes(p, n) : n \in 0..7} = CompassPositions
    /\ FrontTimes(p, 8) = p

(* The hat middles held by the part arrays and by the installed signals. *)
HatMiddles ==
    {local_configurer.parts[i].data0 :
        i \in {j \in DOMAIN local_configurer.parts : local_configurer.parts[j].kind = HAT}}
    \cup {local_joystick.signal_map[i].d0 :
        i \in {j \in DOMAIN local_joystick.signal_map : local_joystick.signal_map[j].kind = HAT}}

(* C19: for every compass position P of a hat, the front and the back of P *)
(* are compass positions other than P, the back of the front of P is P,    *)
(* and taking the front 8 times passes through all 8 positions and ends    *)
(* at P.                                                                   *)
C19_HatAdjacencyClosed ==
    \A p \in HatMiddles \cap CompassPositions : HatClosed(p)

(* apply_configuration() built hat signals on a diagonal and on a straight *)
(* position.                                                               *)
C19_Witness ==
    /\ last.op = "apply_configuration" /\ crashed = ""
    /\ local_joystick.signal_map[1].kind = HAT
    /\ local_joystick.signal_map[1].d0 = SDL_HAT_RIGHTUP
    /\ local_joystick.signal_map[2].kind = HAT
    /\ local_joystick.signal_map[2].d0 = SDL_HAT_LEFT

(* The left-most leaf of a tree of unions. *)
RECURSIVE LeftMostLeaf(_)
LeftMostLeaf(sig) == IF sig.kind = UNION_SIGNAL THEN LeftMostLeaf(sig.primary) ELSE sig

(* Readings of the game controller: nothing, the d-pad up button alone,    *)
(* the left stick up alone, both.                                          *)
UnionReadings ==
    { NoReading,
      Rd(<<>>, {SDL_CONTROLLER_BUTTON_DPAD_UP}, <<>>),
      Rd(<<zero, lowest>>, {}, <<>>),
      Rd(<<zero, lowest>>, {SDL_CONTROLLER_BUTTON_DPAD_UP}, <<>>) }

UnionSlots(pc) == {i \in DOMAIN pc.signal_map : pc.signal_map[i].kind = UNION_SIGNAL}

UnionIsOr(sig) ==
    /\ \A r \in UnionReadings :
          is_firing(sig, r) = (is_firing(sig.primary, r) \/ is_firing(sig.secondary, r))
    /\ realise(sig) = realise(sig.primary)
    /\ realise(sig) = LeftMostLeaf(sig)

(* C20: a union fires exactly when its primary or its secondary fires, its *)
(* realise() is that of its primary, and what                              *)
(* set_joystick_configuration_preferences() stores for a slot holding a    *)
(* union is the kind, id and data of the union's left-most leaf.           *)
C20_UnionSemantics ==
    [][ /\ \A i \in UnionSlots(local_joystick) : UnionIsOr(local_joystick.signal_map[i])
        /\ \A i \in UnionSlots(local_joystick') : UnionIsOr(local_joystick'.signal_map[i])
        /\ (last'.op = "set_joystick_configuration_preferences" /\ crashed' = "") =>
              \A i \in UnionSlots(local_joystick) :
                  LET leaf == LeftMostLeaf(local_joystick.signal_map[i])
                  IN  prefs'.parts[i] = Part(leaf.kind, leaf.id, leaf.d0, leaf.d1) ]_vars

(* The preferences were saved from the blind game-controller mapping: up   *)
(* is a union that fires on the left stick alone, which its primary, the   *)
(* d-pad button, does not, and the button is what was stored.              *)
C20_Witness ==
    /\ last.op = "set_joystick_configuration_preferences"
    /\ 1 \in UnionSlots(local_joystick)
    /\ is_firing(local_joystick.signal_map[1], Rd(<<zero, lowest>>, {}, <<>>))
    /\ ~is_firing(local_joystick.signal_map[1].primary, Rd(<<zero, lowest>>, {}, <<>>))
    /\ prefs.parts[1] = Part(BUTTON, SDL_CONTROLLER_BUTTON_DPAD_UP, 0, 0)

(***************************************************************************)
(* Properties of the Binding Table (SpecBind).                             *)
(***************************************************************************)
Bound == local_joystick.device # NoDevice

(* The layout the default heuristic is to give device d. *)
HeuristicLayout(d) ==
    IF ModelOf(d.id).gc THEN BlindGcMap(d)
    ELSE IF ModelOf(d.id).hats >= 1
    THEN << hat_signal(d, 0, SDL_HAT_UP), hat_signal(d, 0, SDL_HAT_DOWN),
            hat_signal(d, 0, SDL_HAT_LEFT), hat_signal(d, 0, SDL_HAT_RIGHT),
            button_signal(d, 0), button_signal(d, 1), button_signal(d, 2) >>
    ELSE << axis_signal(d, 1, lowest, -dead_pad_ex), axis_signal(d, 1, dead_pad_ex, highest),
            axis_signal(d, 0, lowest, -dead_pad_ex), axis_signal(d, 0, dead_pad_ex, highest),
            button_signal(d, 0), button_signal(d, 1), button_signal(d, 2) >>

(* C21: configure_blind() gives the game-controller layout to a game       *)
(* controller, else the hat layout (hat 0 up/down/left/right, buttons      *)
(* 0/1/2) to a device with a hat, whatever its axes, else the axial        *)
(* layout; exactly one of the three, and the same on every call.           *)
C21_BlindLayoutByPriority ==
    Bound =>
        /\ configure_blind(local_joystick).signal_map = HeuristicLayout(local_joystick.device)
        /\ configure_blind(configure_blind(local_joystick)) = configure_blind(local_joystick)
        /\ Cardinality({m \in {1, 2, 3} :
                <<BlindGcMap(local_joystick.device), BlindHattyMap(local_joystick.device),
                  BlindAxialMap(local_joystick.device)>>[m]
                = configure_blind(local_joystick).signal_map}) = 1
        /\ (last.op = "use_default_config" \/ local_joystick.default_config) =>
                local_joystick.signal_map = HeuristicLayout(local_joystick.device)

(* use_default_config() on the hat pad, which also has two axes, while a   *)
(* different mapping was installed: the hat layout is back.                *)
C21_Witness ==
    /\ last.op = "use_default_config" /\ Bound
    /\ get_guid(local_joystick.device) = "guid_hat"
    /\ prefer_axial_setup(local_joystick.device)
    /\ session.applies = 1
    /\ local_joystick.signal_map[1] = hat_signal(local_joystick.device, 0, SDL_HAT_UP)

(***************************************************************************)
(* Properties of the validation of stored values (SpecLoad).               *)
(***************************************************************************)
ValidStored(p) ==
    /\ p.kind \in {AXIS, BUTTON, HAT}
    /\ p.id \in 0..255
    /\ p.kind = HAT => p.data0 \in CompassPositions

(* C22: whatever integers are stored, validation yields a kind in          *)
(* {AXIS, BUTTON, HAT}, an id in 0..255 and, for a hat, one of the 8       *)
(* compass positions; a value already valid is returned unchanged; no      *)
(* validation aborts; and every slot built from validated values, at       *)
(* start-up or later, is a signal (not NULL) whose construction does not   *)
(* abort.                                                                  *)
C22_ValidatedValuesBuildSignals ==
    [][ /\ last'.op = "validate_preferences" =>
            /\ crashed' = ""
            /\ \A i \in 1..NUM_CONTROLS :
                 LET raw == prefs.parts[i]
                     v == prefs'.parts[i]
                 IN  /\ ValidStored(v)
                     /\ raw.kind \in {AXIS, BUTTON, HAT} => v.kind = raw.kind
                     /\ raw.id \in 0..255 => v.id = raw.id
                     /\ ValidStored(raw) => v = raw
                     /\ (raw.kind \in {AXIS, BUTTON}) => v.data0 = raw.data0
                     /\ v.data1 = raw.data1
                     /\ make(OpenAll(attached, cant_open, 0, <<>>)[1], v.kind, v.id, v.data0, v.data1)
                            \notin {NullSignal, FatalSignal}
        /\ last'.op # "validate_preferences" => (crashed' = "" /\ Readable(local_joystick')) ]_vars

(* The hat pad was bound at start-up from preferences whose first control  *)
(* had been stored as a hat with a position that is no compass position:   *)
(* it was read as a hat pointing right.                                    *)
C22_Witness ==
    /\ last.op = "initial_setup" /\ Bound /\ ~local_joystick.default_config
    /\ local_joystick.signal_map[1].kind \in {AXIS, BUTTON, HAT}
    /\ prefs.parts[1] # SavedHatParts[1]
    /\ prefs.parts[1].kind = HAT /\ prefs.parts[1].data0 = SDL_HAT_RIGHT

(* C23: use_preferences_config() called while can_use_preferences_config() *)
(* is false leaves the slots and the defaultConfig flag as they were.       *)
C23_SavedConfigOnlyWhenUsable ==
    [][ (last'.op = "use_preferences_config" /\ ~can_use_preferences_config) =>
            /\ local_joystick'.signal_map = local_joystick.signal_map
            /\ local_joystick'.default_config = local_joystick.default_config ]_vars

EmptySlots(pc) == \A i \in DOMAIN pc.signal_map : pc.signal_map[i] = NullSignal

(* C25: whenever no device is bound, each of the 7 slots is empty.         *)
C25_UnboundSlotsEmpty == ~Bound => EmptySlots(local_joystick)

(* The slots the persisted configuration pf gives device d. *)
PersistedLayout(d, pf) ==
    [i \in 1..NUM_CONTROLS |->
        make(d, pf.parts[i].kind, pf.parts[i].id, pf.parts[i].data0, pf.parts[i].data1)]

(* C24: after each call that leaves a device bound, the defaultConfig flag *)
(* is true exactly when that call, or the last one to build the slots,     *)
(* built them by the heuristic: use_default_config() builds the heuristic  *)
(* layout and sets the flag; use_preferences_config() and                  *)
(* apply_configuration() build the slots from stored or captured parts and *)
(* clear it; binding a device loads the persisted slots and clears the     *)
(* flag when its GUID is the persisted last-configured GUID, and builds    *)
(* the heuristic layout and sets the flag otherwise; no other call touches *)
(* slots or flag.                                                          *)
C24_FlagTellsHeuristic ==
    [][ Bound' =>
        LET d == local_joystick'.device
            flag == local_joystick'.default_config
            slots == local_joystick'.signal_map
        IN  /\ flag => slots = HeuristicLayout(d)
            /\ last'.op = "change_device" =>
                IF get_guid(d) = prefs.configured_joystick_guid
                THEN ~flag /\ slots = PersistedLayout(d, prefs)
                ELSE flag /\ slots = HeuristicLayout(d)
            /\ last'.op = "use_default_config" => (flag /\ slots = HeuristicLayout(d))
            /\ last'.op = "use_preferences_config" =>
                (~flag /\ slots = PersistedLayout(d, prefs))
            /\ (last'.op = "apply_configuration" /\ local_configurer.exists) =>
                /\ ~flag
                /\ \E g \in ArbitraryParts :
                    slots = PersistedLayout(d, [parts |-> ReadParts(local_configurer, g)])
            /\ (\/ last'.op \in {"start_configurer", "stop_configurer"}
                \/ last'.op = "apply_configuration" /\ ~local_configurer.exists) =>
                local_joystick' = local_joystick ]_vars

(* The plain stick was bound while the persisted configuration is the hat  *)
(* pad's, after the pad had been running on persisted slots: it got the    *)
(* heuristic layout and the flag.                                          *)
C24_Witness ==
    /\ last.op = "change_device" /\ Bound
    /\ prefs.configured_joystick_guid = "guid_hat"
    /\ get_guid(local_joystick.device) \notin {"guid_hat", "guid_pad"}
    /\ local_joystick.default_config
    /\ local_joystick.signal_map = BlindAxialMap(local_joystick.device)

(***************************************************************************)
(* Properties of the wizard's explicit signals (SpecWiz, SpecBack).        *)
(***************************************************************************)
(* C26: Back pressed in getting_button for control k > 0 leads to          *)
(* getting_button for control k - 1, the dialog's and the configurer's     *)
(* curr_control each one less than before; pressed for control 0 it leads  *)
(* to neutral_zone_start when the neutral zones were calibrated in this    *)
(* session and changes nothing otherwise.                                  *)
C26_BackStepsOneControl ==
    [][ (last'.op = "back_one_control" /\ wizard.state = "getting_button") =>
            IF wizard.curr_control > 0
            THEN /\ wizard'.state = "getting_button"
                 /\ wizard'.curr_control = wizard.curr_control - 1
                 /\ local_configurer'.curr_control = local_configurer.curr_control - 1
            ELSE IF wizard.do_neutral_check
            THEN wizard'.state = "neutral_zone_start"
            ELSE UNCHANGED <<wizard, local_configurer>> ]_vars

NeutralStates == {"neutral_zone_start", "getting_neutral_zone", "lively_neutral_zone"}

(* C27: when the bound device knows its neutral points at the start of a   *)
(* session, the wizard leaves welcome for getting_button, is in none of    *)
(* the three neutral-zone states while the session lasts, whatever is      *)
(* pressed, and its configurer keeps the neutral zone [0, 0] on every      *)
(* axis; when the device does not know them, the wizard leaves welcome     *)
(* for neutral_zone_start (unless it is cancelled).                        *)
C27_KnownNeutralSkipsCalibration ==
    [][ wizard'.open =>
        LET known == know_neutral_points(local_joystick'.device)
        IN  /\ wizard'.do_neutral_check = ~known
            /\ known =>
                /\ wizard'.state \notin NeutralStates
                /\ \A a \in DOMAIN local_configurer'.neutral_min :
                      /\ local_configurer'.neutral_min[a] = 0
                      /\ local_configurer'.neutral_max[a] = 0
            /\ (wizard.open /\ wizard.state = "welcome" /\ wizard'.state # "welcome") =>
                wizard'.state = IF known THEN "getting_button" ELSE "neutral_zone_start" ]_vars

(* On the game controller, which knows its neutral points, an axis was     *)
(* captured for the first control and Back has been pressed since.         *)
C27_Witness ==
    /\ wizard.open /\ wizard.state = "getting_button"
    /\ know_neutral_points(local_joystick.device)
    /\ local_configurer.retreats = 1
    /\ local_configurer.parts[1].kind = AXIS
    /\ local_configurer.parts[1].data1 = -dead_pad_ex

(* C28: while the wizard is in getting_neutral_zone neither Okay nor Back  *)
(* takes a click, and okay_button_click() would change nothing; the state  *)
(* is entered by Okay with 120 ticks to go, each handle_process takes one  *)
(* tick off, and the state is left only by Cancel or by the handle_process *)
(* that takes the last tick.                                               *)
C28_ScanOnlyEndsByBudget ==
    [][ /\ (wizard.open /\ wizard.state = "getting_neutral_zone") =>
            /\ ~wizard.okay_on /\ ~wizard.prev_on
            /\ okay_button_click(WS) = WS
            /\ wizard.tick \in 1..TickGettingNeutralZone
            /\ last'.op \in {"handle_process", "cancel_button_click"}
            /\ last'.op = "handle_process" =>
                /\ wizard'.tick = wizard.tick - 1
                /\ (wizard'.state # "getting_neutral_zone") = (wizard.tick = 1)
        /\ (wizard.state # "getting_neutral_zone" /\ wizard'.state = "getting_neutral_zone") =>
            /\ last'.op = "okay_button_click"
            /\ wizard'.tick = TickGettingNeutralZone ]_vars

(* The scan ran out of ticks on a moving axis. *)
C28_Witness ==
    /\ wizard.open /\ wizard.state = "lively_neutral_zone"
    /\ last.op = "handle_process"

(***************************************************************************)
(* Properties of the neutral and dead zones (SpecScan).                    *)
(***************************************************************************)
(* C29: entering neutral_zone_start clears every zone; each sampled tick   *)
(* of getting_neutral_zone widens each axis's zone to the reading taken    *)
(* and the ticks before the 60th from the end leave it alone; and the      *)
(* handle_process that ends the scan leads to lively_neutral_zone exactly  *)
(* when some axis has max - min >= 4096, to getting_button otherwise.      *)
C29_LivelyFromSpan4096 ==
    [][ /\ (wizard.state # "neutral_zone_start" /\ wizard'.state = "neutral_zone_start") =>
            \A a \in DOMAIN local_configurer'.neutral_min :
                /\ local_configurer'.neutral_min[a] = 32768
                /\ local_configurer'.neutral_max[a] = -32769
        /\ (wizard.state = "getting_neutral_zone" /\ last'.op = "handle_process") =>
            IF wizard'.state = "getting_neutral_zone"
            THEN IF wizard'.tick < 60
                 THEN \E r \in RestReadings :
                        \A a \in DOMAIN local_configurer.neutral_min :
                          LET v == read_axis(r, a - 1)
                              lo == local_configurer.neutral_min[a]
                              hi == local_configurer.neutral_max[a]
                          IN  /\ local_configurer'.neutral_min[a] = IF v < lo THEN v ELSE lo
                              /\ local_configurer'.neutral_max[a] = IF v > hi THEN v ELSE hi
                 ELSE local_configurer' = local_configurer
            ELSE /\ local_configurer' = local_configurer
                 /\ wizard'.state =
                        IF \E a \in DOMAIN local_configurer.neutral_min :
                              local_configurer.neutral_max[a]
                                  - local_configurer.neutral_min[a] >= 4096
                        THEN "lively_neutral_zone" ELSE "getting_button" ]_vars

(* The first axis moved over a span of 4095 during the scan, and the       *)
(* wizard asks for the first control.                                      *)
C29_Witness ==
    /\ wizard.open /\ wizard.state = "getting_button" /\ last.op = "handle_process"
    /\ wizard.curr_control = 0 /\ local_configurer.parts[1] = Uninit
    /\ local_configurer.neutral_max[1] - local_configurer.neutral_min[1] = 4095

(* C30: a listen_for_signal() that captures axis a, whose neutral zone is  *)
(* [lo, hi], read a value v with v <= lo - 4097 or v >= hi + 4097, so none *)
(* of the dead zone [lo - 4096, hi + 4096]; the range it records is        *)
(* [-32768, lo - 4097] or [hi + 4097, 32767], holds v and holds no value   *)
(* of the dead zone.                                                       *)
C30_CaptureOutsideDeadZone ==
    [][ (last'.op = "handle_process" /\ wizard.state = "getting_button" /\ wizard.tick = 0) =>
        \A r \in ScanReadings :
            (/\ local_configurer' = listen_for_signal(local_configurer, r).cf
             /\ last'.ret = listen_for_signal(local_configurer, r).result) =>
            LET p == local_configurer'.parts[local_configurer.curr_control + 1]
            IN  \A a \in DOMAIN local_configurer.neutral_min :
                  LET v == read_axis(r, a - 1)
                      lo == local_configurer.neutral_min[a]
                      hi == local_configurer.neutral_max[a]
                  IN  (last'.ret # "still_listening" /\ p.kind = AXIS /\ p.id = a - 1) =>
                        /\ v <= lo - 4097 \/ v >= hi + 4097
                        /\ ~(lo - 4096 <= v /\ v <= hi + 4096)
                        /\ <<p.data0, p.data1>> \in {<<-32768, lo - 4097>>, <<hi + 4097, 32767>>}
                        /\ p.data0 <= v /\ v <= p.data1
                        /\ p.data1 < lo - 4096 \/ p.data0 > hi + 4096 ]_vars

(* With the first axis resting between 0 and 4095, a reading of -4097 was  *)
(* captured for the first control as the range [-32768, -4097].            *)
C30_Witness ==
    /\ wizard.open /\ last.op = "handle_process" /\ last.ret = "success_keep_going"
    /\ local_configurer.neutral_min[1] = 0 /\ local_configurer.neutral_max[1] = 4095
    /\ local_configurer.parts[1] = Part(AXIS, 0, -32768, -4097)

(***************************************************************************)
(* Properties of listen_for_signal and retreat (SpecListen).               *)
(***************************************************************************)
(* C31: a listen_for_signal() records, for the current control, the        *)
(* lowest-numbered axis read outside its dead zone if there is one, else   *)
(* the lowest-numbered pressed button, else the lowest-numbered hat that   *)
(* is not centred, and records nothing and returns still_listening when    *)
(* nothing is active; what it records is determined by the readings and    *)
(* the configurer alone.                                                   *)
C31_AxesThenButtonsThenHats ==
    [][ (last'.op = "listen_for_signal" /\ local_configurer.exists) =>
        \A r \in ListenReadings :
            (/\ local_configurer' = listen_for_signal(local_configurer, r).cf
             /\ last'.ret = listen_for_signal(local_configurer, r).result) =>
            LET cf == local_configurer
                p == local_configurer'.parts[cf.curr_control + 1]
                A == {a \in 0..(num_axes(cf.device) - 1) :
                        \/ read_axis(r, a) <= cf.neutral_min[a + 1] - 4097
                        \/ read_axis(r, a) >= cf.neutral_max[a + 1] + 4097}
                B == {b \in 0..(num_buttons(cf.device) - 1) : b \in r.bt}
                H == {h \in 0..(num_hats(cf.device) - 1) :
                        read_hat(cf.device, r, h) # SDL_HAT_CENTERED}
            IN  IF A # {}
                THEN /\ last'.ret # "still_listening"
                     /\ p.kind = AXIS /\ p.id = Min(A)
                ELSE IF B # {}
                THEN /\ last'.ret # "still_listening"
                     /\ p = Part(BUTTON, Min(B), 0, 0)
                ELSE IF H # {}
                THEN /\ last'.ret # "still_listening"
                     /\ p = Part(HAT, Min(H), read_hat(cf.device, r, Min(H)), 0)
                ELSE /\ last'.ret = "still_listening"
                     /\ local_configurer' = local_configurer ]_vars

(* The second axis was moved while the first rested, a button was held and *)
(* the hat pushed: the second axis was recorded for the first control.     *)
C31_Witness ==
    /\ last.op = "listen_for_signal" /\ last.ret = "success_keep_going"
    /\ local_configurer.curr_control = 1 /\ local_configurer.retreats = 0
    /\ local_configurer.parts[1] = Part(AXIS, 1, -32768, -4097)

(* The clash rule on two parts: same kind and id, and both buttons, or     *)
(* hats with the same position, or axes whose ranges share a value.        *)
ClashRule(x, y) ==
    /\ x.kind = y.kind /\ x.id = y.id
    /\ \/ x.kind = BUTTON
       \/ x.kind = HAT /\ x.data0 = y.data0
       \/ /\ x.kind = AXIS
          /\ (IF x.data0 > y.data0 THEN x.data0 ELSE y.data0)
                <= (IF x.data1 < y.data1 THEN x.data1 ELSE y.data1)

ProperRange(x) == x.kind = AXIS => x.data0 <= x.data1

(* C32: current_control_clashes() on the second of two parts is clash() of *)
(* the two, and for parts whose axis ranges have low <= high it is true    *)
(* exactly when the clash rule says so.                                    *)
C32_ClashIsTheRule ==
    (/\ last.op = "current_control_clashes"
     /\ ProperRange(local_configurer.parts[1]) /\ ProperRange(local_configurer.parts[2])) =>
        /\ (last.ret = "true") = ClashRule(local_configurer.parts[1], local_configurer.parts[2])
        /\ clash(local_configurer.parts, 0, 1)
              = ClashRule(local_configurer.parts[1], local_configurer.parts[2])

(* Two ranges of axis 0 that share the value 0 only were found to clash. *)
C32_Witness ==
    /\ last.op = "current_control_clashes" /\ last.ret = "true"
    /\ local_configurer.parts[1] = Part(AXIS, 0, lowest, zero)
    /\ local_configurer.parts[2] = Part(AXIS, 0, zero, highest)

(* C36: the configurer's curr_control is always within 0..6; a             *)
(* listen_for_signal() moves it forward by one or not at all and keeps it  *)
(* at 6 once the seventh control is filled, a retreat() moves it back by   *)
(* one, or returns false and keeps it at 0; none of these calls fails.     *)
C36_SlotIndexInRange ==
    [][ (local_configurer.exists /\ local_configurer'.exists) =>
        LET c == local_configurer.curr_control
            d == local_configurer'.curr_control
        IN  /\ c \in 0..6 /\ d \in 0..6
            /\ crashed' = ""
            /\ last'.op = "listen_for_signal" =>
                /\ d \in {c, c + 1}
                /\ c = 6 => (d = 6 /\ last'.ret \in {"still_listening", "duplicate",
                                                      "success_finished"})
            /\ last'.op = "retreat" =>
                /\ d = (IF c = 0 THEN 0 ELSE c - 1)
                /\ last'.ret = (IF c = 0 THEN "false" ELSE "true") ]_vars

(* A part was captured after the seventh control had been filled. *)
C36_Witness ==
    /\ last.op = "listen_for_signal" /\ last.after = "success_finished"
    /\ last.ret = "success_finished"
    /\ local_configurer.curr_control = 6

(* C37: when listen_for_signal() returns success_finished, all 7 controls  *)
(* hold captured parts and no two of them clash.                           *)
C37_FinishedMapHasNoClash ==
    [][ (last'.op = "listen_for_signal" /\ last'.ret = "success_finished") =>
        /\ \A i \in 1..NUM_CONTROLS : local_configurer'.parts[i] # Uninit
        /\ \A i \in 1..NUM_CONTROLS, j \in 1..NUM_CONTROLS :
              i # j => ~ClashRule(local_configurer'.parts[i], local_configurer'.parts[j]) ]_vars

(* The seventh control was captured after controls had been taken back     *)
(* three times and a duplicate had been refused.                           *)
C37_Witness ==
    /\ last.op = "listen_for_signal" /\ last.ret = "success_finished"
    /\ local_configurer.retreats = MaxListenRetreats
    /\ last.after = "duplicate"

(***************************************************************************)
(* Properties of a whole configuration session (SpecWiz, SpecBack,         *)
(* SpecDetach).                                                            *)
(***************************************************************************)
(* C33: the persisted parts and the persisted last-configured GUID change  *)
(* only by Okay pressed in finished; after that Okay the Binding Table     *)
(* holds the signals made from the configurer's 7 parts, the persisted     *)
(* parts are the configurer's 7 parts, and the persisted GUID is the bound *)
(* device's.                                                               *)
C33_PersistOnOkayInFinished ==
    [][ /\ (\/ prefs'.parts # prefs.parts
            \/ prefs'.configured_joystick_guid # prefs.configured_joystick_guid) =>
                (last'.op = "okay_button_click" /\ last'.ret = "finished")
        /\ (last'.op = "okay_button_click" /\ last'.ret = "finished") =>
            /\ Bound'
            /\ local_joystick'.signal_map
                  = PersistedLayout(local_joystick'.device, [parts |-> local_configurer.parts])
            /\ ~local_joystick'.default_config
            /\ prefs'.parts = local_configurer.parts
            /\ prefs'.configured_joystick_guid = get_guid(local_joystick'.device) ]_vars

(* The states that count ticks down, with the ticks each is given, and the *)
(* states that wait at tick 0.                                             *)
Budget ==
    [welcome |-> 30, getting_neutral_zone |-> 120, already_used |-> 60,
     confirming_got_button |-> 30]

WaitingStates == {"neutral_zone_start", "lively_neutral_zone", "getting_button", "finished"}

RECURSIVE AxisLeaves(_)
AxisLeaves(sig) ==
    CASE sig.kind = UNION_SIGNAL -> AxisLeaves(sig.primary) \cup AxisLeaves(sig.secondary)
      [] sig.kind = AXIS -> {sig.id}
      [] OTHER -> {}

(* The raw extremes, the centre and both sides of each edge of the dead    *)
(* pad; a reading with axis a at v and every other part at rest.           *)
DeadPadEdges == {lowest, -dead_pad_ex, -dead_pad, zero, dead_pad, dead_pad_ex, highest}

OnlyAxis(a, v) == Rd([i \in 1..4 |-> IF i = a + 1 THEN v ELSE zero], {}, <<>>)

OppositePairs == {<<CONTROL_UP, CONTROL_DOWN>>, <<CONTROL_LEFT, CONTROL_RIGHT>>}

(* C35: under a heuristic layout, for each axis bound to a pair of         *)
(* opposite directions, a reading of that axis in -4096..4096 fires        *)
(* neither direction, a reading from -32768 to -4097 fires the first and   *)
(* not the second, a reading from 4097 to 32767 fires the second and not   *)
(* the first; no reading of the axis fires both.                           *)
C35_DeadPadSplitsTheAxis ==
    (Bound /\ local_joystick.default_config) =>
        \A pair \in OppositePairs :
            \A a \in AxisLeaves(local_joystick.signal_map[pair[1] + 1])
                        \cup AxisLeaves(local_joystick.signal_map[pair[2] + 1]) :
                \A v \in DeadPadEdges :
                    LET lo == pc_pressed(local_joystick, pair[1], OnlyAxis(a, v))
                        hi == pc_pressed(local_joystick, pair[2], OnlyAxis(a, v))
                    IN  /\ ~(lo /\ hi)
                        /\ (-dead_pad <= v /\ v <= dead_pad) => (~lo /\ ~hi)
                        /\ v < -dead_pad => (lo /\ ~hi)
                        /\ v > dead_pad => (hi /\ ~lo)

(* The game controller under its heuristic layout: the right stick at the  *)
(* first value past the dead pad fires up and not down.                    *)
C35_Witness ==
    /\ last.op = "use_default_config"
    /\ Bound /\ local_joystick.default_config /\ ModelOf(local_joystick.device.id).gc
    /\ pc_pressed(local_joystick, CONTROL_UP, OnlyAxis(SDL_CONTROLLER_AXIS_RIGHTY, -dead_pad_ex))
    /\ ~pc_pressed(local_joystick, CONTROL_UP, OnlyAxis(SDL_CONTROLLER_AXIS_RIGHTY, -dead_pad))
    /\ ~pc_pressed(local_joystick, CONTROL_DOWN, OnlyAxis(SDL_CONTROLLER_AXIS_RIGHTY, -dead_pad_ex))

(* C38: while the wizard is open, in getting_button the control named in   *)
(* the prompt is the slot the configurer records the next capture in, and  *)
(* in finished the configurer stands at the last slot with all 7 slots     *)
(* captured.                                                               *)
C38_DialogAndConfigurerAgree ==
    wizard.open =>
        /\ wizard.state = "getting_button" =>
              /\ local_configurer.exists
              /\ wizard.curr_control = local_configurer.curr_control
        /\ wizard.state = "finished" =>
              /\ local_configurer.exists
              /\ local_configurer.curr_control = NUM_CONTROLS - 1
              /\ \A i \in 1..NUM_CONTROLS : local_configurer.parts[i] # Uninit

(***************************************************************************)
(* Properties of the Binding Table over a whole run (SpecTable, Spec).     *)
(***************************************************************************)
(* C39: whenever a device is bound the Binding Table holds exactly 7       *)
(* signals, none of them null, so that up(), down(), left(), right() and   *)
(* button(0..2) can be evaluated.                                          *)
C39_BoundTableIsComplete ==
    Bound => (Len(local_joystick.signal_map) = NUM_CONTROLS /\ Readable(local_joystick))

(* The saved configuration was chosen for the bound device after a         *)
(* configuration session had ended.                                        *)
C39_Witness ==
    /\ last.op = "use_preferences_config" /\ Bound
    /\ session.count = 1 /\ ~session.active

(* C40: in every reachable state the Binding Table's active device is      *)
(* either none or one of the handles in the tracked device list.           *)
C40_ActiveDeviceIsTracked ==
    Bound => \E i \in DOMAIN joysticks : joysticks[i] = local_joystick.device

(* A removal event was handled and a device is still bound, while the     *)
(* tracked list holds exactly the handles of the attached devices.         *)
C40_Witness ==
    /\ last.op = "pump_events" /\ last.ret = "SDL_JOYDEVICEREMOVED"
    /\ Bound /\ Len(joysticks) >= 1 /\ Len(attached) = Len(joysticks)
    /\ \A i \in DOMAIN joysticks : joysticks[i].id \in Range(attached)

====
